---- MODULE Spec2Model ----
(***************************************************************************)
(* A model of the SmartScrub data-quality engine: the in-memory dataset    *)
(* store, the suggestion store of the cleaning API, the suggestion         *)
(* generators and their ranking, and the two cleaning pipelines (manual    *)
(* and suggestion-based).                                                  *)
(*                                                                         *)
(* A table is a pandas DataFrame: an ordered list of column names, a dtype *)
(* per column and an ordered list of rows.  Text is a sequence of          *)
(* one-character strings, so that the string operations of the cleaner     *)
(* (lower, strip, the e-mail pattern, digit extraction) are computed       *)
(* character by character as pandas computes them.  Numbers are whole      *)
(* units; a mean or a median is rounded down to a whole unit.  Confidence  *)
(* scores and thresholds are hundredths (0.85 is 85).                      *)
(***************************************************************************)
EXTENDS Integers, Sequences, FiniteSets, TLC

(***************************************************************************)
(* Bounds of the model.                                                    *)
(***************************************************************************)
MaxRows == 2
MaxIds == 2
MaxBatches == 2

(***************************************************************************)
(* Cell values.                                                            *)
(***************************************************************************)
Null == [t |-> "null", n |-> 0, s |-> <<>>]
Num(k) == [t |-> "num", n |-> k, s |-> <<>>]
Str(cs) == [t |-> "str", n |-> 0, s |-> cs]
Bool(b) == [t |-> "bool", n |-> IF b THEN 1 ELSE 0, s |-> <<>>]
Dt(cs) == [t |-> "dt", n |-> 0, s |-> cs]

IsNull(v) == v.t = "null"

(***************************************************************************)
(* Parameter values of a suggestion or of an override (Dict[str, Any]).    *)
(***************************************************************************)
PStr(str) == [t |-> "str", s |-> str, n |-> 0]
\* A number is held in eighths: the bounds of the outlier analyzer are
\* multiples of 1/8.
PNum(eighths) == [t |-> "num", s |-> "", n |-> eighths]
PBool(b) == [t |-> "bool", s |-> "", n |-> IF b THEN 1 ELSE 0]
PNone == [t |-> "none", s |-> "", n |-> 0]
NoParams == [k \in {} |-> PNone]

\* dict.get(key, default)
Get(params, key, default) ==
    IF key \in DOMAIN params THEN params[key] ELSE default

(***************************************************************************)
(* Characters, in code-point order.                                        *)
(***************************************************************************)
CharOrder ==
    << " ", "%", "+", "-", ".", "0", "1", "2", "3", "4", "5", "6", "7", "8",
       "9", "@", "A", "B", "C", "E", "F", "L", "N", "O", "R", "S", "T", "U",
       "Y", "_", "a", "b", "c", "e", "f", "l", "n", "o", "r", "s", "t", "u",
       "y" >>
Digits == {"0", "1", "2", "3", "4", "5", "6", "7", "8", "9"}
UpperChars == <<"A", "B", "C", "E", "F", "L", "N", "O", "R", "S", "T", "U", "Y">>
LowerChars == <<"a", "b", "c", "e", "f", "l", "n", "o", "r", "s", "t", "u", "y">>
Letters == {UpperChars[i] : i \in 1..Len(UpperChars)}
              \cup {LowerChars[i] : i \in 1..Len(LowerChars)}

CodePoint(c) == CHOOSE i \in 1..Len(CharOrder) : CharOrder[i] = c

LowerChar(c) ==
    IF \E i \in 1..Len(UpperChars) : UpperChars[i] = c
    THEN LowerChars[CHOOSE i \in 1..Len(UpperChars) : UpperChars[i] = c]
    ELSE c
UpperChar(c) ==
    IF \E i \in 1..Len(LowerChars) : LowerChars[i] = c
    THEN UpperChars[CHOOSE i \in 1..Len(LowerChars) : LowerChars[i] = c]
    ELSE c

\* str.lower(), str.upper()
StrLower(cs) == [i \in 1..Len(cs) |-> LowerChar(cs[i])]
StrUpper(cs) == [i \in 1..Len(cs) |-> UpperChar(cs[i])]
\* str.title(): a letter that follows a non-letter is upper-cased, any other
\* letter lower-cased.
StrTitle(cs) ==
    [i \in 1..Len(cs) |->
        IF i = 1 \/ cs[i - 1] \notin Letters
        THEN UpperChar(cs[i]) ELSE LowerChar(cs[i])]

\* str.strip(): leading and trailing white space removed.
RECURSIVE LStrip(_)
LStrip(cs) ==
    IF cs # <<>> /\ Head(cs) = " " THEN LStrip(Tail(cs)) ELSE cs
RECURSIVE RStrip(_)
RStrip(cs) ==
    IF cs # <<>> /\ cs[Len(cs)] = " "
    THEN RStrip(SubSeq(cs, 1, Len(cs) - 1)) ELSE cs
StrStrip(cs) == RStrip(LStrip(cs))

\* Lexicographic order of two texts (sorting of str values).
RECURSIVE StrLess(_, _)
StrLess(a, b) ==
    IF b = <<>> THEN FALSE
    ELSE IF a = <<>> THEN TRUE
    ELSE IF Head(a) = Head(b) THEN StrLess(Tail(a), Tail(b))
    ELSE CodePoint(Head(a)) < CodePoint(Head(b))

\* r'^[a-zA-Z0-9._%+-]+@[a-zA-Z0-9.-]+\.[a-zA-Z]{2,}$'
EmailLocalChars == Letters \cup Digits \cup {".", "_", "%", "+", "-"}
EmailDomainChars == Letters \cup Digits \cup {".", "-"}
MatchesEmail(cs) ==
    \E i \in 2..Len(cs) : \E j \in (i + 2)..(Len(cs) - 2) :
        /\ cs[i] = "@"
        /\ cs[j] = "."
        /\ \A k \in 1..(i - 1) : cs[k] \in EmailLocalChars
        /\ \A k \in (i + 1)..(j - 1) : cs[k] \in EmailDomainChars
        /\ \A k \in (j + 1)..Len(cs) : cs[k] \in Letters

\* str.contains('@'), str.contains(r'\d{3}')
ContainsAt(cs) == \E i \in 1..Len(cs) : cs[i] = "@"
ContainsThreeDigits(cs) ==
    \E i \in 1..(Len(cs) - 2) : \A k \in i..(i + 2) : cs[k] \in Digits

IsDigit(c) == c \in Digits
\* str.replace(r'[^\d]', '')
DigitsOnly(cs) == SelectSeq(cs, IsDigit)
\* str.replace(r'(\d{3})(\d{3})(\d{4})', r'\1-\2-\3') on a text of 10 digits
FormatPhone(ds) ==
    SubSeq(ds, 1, 3) \o <<"-">> \o SubSeq(ds, 4, 6) \o <<"-">> \o SubSeq(ds, 7, 10)

DigitValue(c) == CodePoint(c) - CodePoint("0")
DigitChar(k) == CharOrder[CodePoint("0") + k]
RECURSIVE DigitsValue(_)
DigitsValue(ds) ==
    IF ds = <<>> THEN 0
    ELSE 10 * DigitsValue(SubSeq(ds, 1, Len(ds) - 1)) + DigitValue(ds[Len(ds)])
RECURSIVE NatText(_)
NatText(k) ==
    IF k < 10 THEN <<DigitChar(k)>> ELSE NatText(k \div 10) \o <<DigitChar(k % 10)>>

\* The texts pandas.to_numeric parses: decimal digits, white space around
\* them and a trailing ".0" allowed; "nan" and the empty text parse to the
\* missing value.
IntegerPart(cs) ==
    LET core == StrStrip(cs)
    IN  IF Len(core) > 2 /\ SubSeq(core, Len(core) - 1, Len(core)) = <<".", "0">>
        THEN SubSeq(core, 1, Len(core) - 2) ELSE core
IsNumberText(cs) ==
    IntegerPart(cs) # <<>> /\ \A i \in 1..Len(IntegerPart(cs)) : IntegerPart(cs)[i] \in Digits
IsNanText(cs) == cs = <<>> \/ StrLower(StrStrip(cs)) = <<"n", "a", "n">>
ParsesNumeric(cs) == IsNumberText(cs) \/ IsNanText(cs)

\* The texts pandas.to_datetime parses to a timestamp: an ISO date
\* yyyy-mm-dd.  (A digit text below 1000 does not look like a date to
\* pandas; the tables of the model hold no longer digit text that does.)
\* Timestamps are held to the day, as the text of their ISO date.
IsDateText(cs) ==
    /\ Len(cs) = 10
    /\ cs[5] = "-" /\ cs[8] = "-"
    /\ \A k \in {1, 2, 3, 4, 6, 7, 9, 10} : cs[k] \in Digits
    /\ DigitsValue(SubSeq(cs, 6, 7)) \in 1..12
    /\ DigitsValue(SubSeq(cs, 9, 10)) \in 1..28
\* The texts pandas.to_datetime reads as the missing timestamp (NaT).
IsNatText(cs) ==
    cs \in {<<>>, <<"n", "a", "n">>, <<"N", "a", "N">>, <<"N", "A", "N">>,
            <<"N", "a", "T">>, <<"n", "a", "t">>, <<"N", "A", "T">>}
ParsesDatetime(cs) == IsDateText(cs) \/ IsNatText(cs)

\* str(value) of a cell, as Series.astype(str) renders it under the dtype.
EpochText == <<"1", "9", "7", "0", "-", "0", "1", "-", "0", "1">>
CellText(v, dtype) ==
    CASE v.t = "null" ->
            IF dtype = "datetime64" THEN <<"N", "a", "T">> ELSE <<"n", "a", "n">>
      [] v.t = "num" ->
            IF dtype = "float64" THEN NatText(v.n) \o <<".", "0">> ELSE NatText(v.n)
      [] v.t = "bool" ->
            IF v.n = 1 THEN <<"T", "r", "u", "e">> ELSE <<"F", "a", "l", "s", "e">>
      [] OTHER -> v.s

(***************************************************************************)
(* Tables (DataFrames) and columns (Series).                               *)
(***************************************************************************)
Range(f) == {f[i] : i \in DOMAIN f}
Columns(t) == Range(t.cols)
NumRows(t) == Len(t.rows)
IsEmptyFrame(t) == Len(t.rows) = 0 \/ Len(t.cols) = 0
Series(t, c) == [i \in 1..Len(t.rows) |-> t.rows[i][c]]
NonNull(vals) == SelectSeq(vals, LAMBDA v : ~IsNull(v))
IsNumericDtype(d) == d \in {"int64", "float64", "bool"}

RECURSIVE PickFrom(_, _, _)
PickFrom(seq, K, i) ==
    IF i > Len(seq) THEN <<>>
    ELSE (IF i \in K THEN <<seq[i]>> ELSE <<>>) \o PickFrom(seq, K, i + 1)
\* df[mask]: the rows whose position is in K, in order.
KeepRows(t, K) == [t EXCEPT !.rows = PickFrom(t.rows, K, 1)]

\* df.drop(columns=S)
DropColumnSet(t, S) ==
    LET left == Columns(t) \ S
    IN  [cols |-> SelectSeq(t.cols, LAMBDA c : c \notin S),
         dtype |-> [c \in left |-> t.dtype[c]],
         rows |-> [i \in 1..Len(t.rows) |-> [c \in left |-> t.rows[i][c]]]]

\* df[c] = series
SetColumn(t, c, vals, dtype) ==
    [t EXCEPT !.dtype[c] = dtype,
              !.rows = [i \in 1..Len(t.rows) |-> [t.rows[i] EXCEPT ![c] = vals[i]]]]

\* A duplicate test on the first column alone (drop_duplicates with a subset).
DuplicatedOnFirstColumn(t, keep) ==
    IF IsEmptyFrame(t) THEN {}
    ELSE {i \in 1..Len(t.rows) :
            \E j \in 1..(i - 1) : t.rows[j][t.cols[1]] = t.rows[i][t.cols[1]]}
\* df.duplicated(keep): the positions flagged as duplicates; an empty frame
\* (no row or no column) has none.
Duplicated(t, keep) ==
    IF IsEmptyFrame(t) THEN {}
    ELSE {i \in 1..Len(t.rows) :
            CASE keep = "first" -> \E j \in 1..(i - 1) : t.rows[j] = t.rows[i]
              [] keep = "last" -> \E j \in (i + 1)..Len(t.rows) : t.rows[j] = t.rows[i]
              [] OTHER -> \E j \in 1..Len(t.rows) : j # i /\ t.rows[j] = t.rows[i]}
\* df.drop_duplicates(keep=keep)
DropDuplicates(t, keep) == KeepRows(t, (1..Len(t.rows)) \ Duplicated(t, keep))

\* df.dropna(subset=[c])
DropNa(t, c) == KeepRows(t, {i \in 1..Len(t.rows) : ~IsNull(t.rows[i][c])})

RECURSIVE SumOf(_)
SumOf(vals) == IF vals = <<>> THEN 0 ELSE Head(vals).n + SumOf(Tail(vals))
\* Series.mean() over the non-null values; Null (NaN) when there is none.
Mean(vals) ==
    IF NonNull(vals) = <<>> THEN Null
    ELSE Num(SumOf(NonNull(vals)) \div Len(NonNull(vals)))

\* The k-th smallest (1-based) number of a non-empty list of numeric cells.
KthSmallest(vals, k) ==
    LET ns == {vals[i].n : i \in 1..Len(vals)}
    IN  CHOOSE x \in ns :
            /\ Cardinality({i \in 1..Len(vals) : vals[i].n < x}) < k
            /\ Cardinality({i \in 1..Len(vals) : vals[i].n <= x}) >= k
\* Series.median()
Median(vals) ==
    LET nn == NonNull(vals)
        m == Len(nn)
    IN  IF m = 0 THEN Null
        ELSE IF m % 2 = 1 THEN Num(KthSmallest(nn, (m + 1) \div 2))
        ELSE Num((KthSmallest(nn, m \div 2) + KthSmallest(nn, m \div 2 + 1)) \div 2)

\* The order Series.mode() sorts its values in.
KindRank(v) ==
    CASE v.t = "bool" -> 1 [] v.t = "num" -> 2 [] v.t = "dt" -> 3 [] OTHER -> 4
ValueLess(a, b) ==
    IF KindRank(a) # KindRank(b) THEN KindRank(a) < KindRank(b)
    ELSE IF a.t = "str" \/ a.t = "dt" THEN StrLess(a.s, b.s)
    ELSE a.n < b.n
Count(vals, v) == Cardinality({i \in 1..Len(vals) : vals[i] = v})
\* Series.mode(): the most frequent non-null values, sorted; <<>> when every
\* value is null.
Mode(vals) ==
    LET nn == NonNull(vals)
        top == {v \in Range(nn) : \A w \in Range(nn) : Count(nn, w) <= Count(nn, v)}
    IN  IF nn = <<>> THEN <<>>
        ELSE <<CHOOSE v \in top : \A w \in top \ {v} : ValueLess(v, w)>>

\* Series.fillna(value); fillna(NaN) changes nothing.
FillNa(vals, value) ==
    [i \in 1..Len(vals) |-> IF IsNull(vals[i]) THEN value ELSE vals[i]]
\* Series.fillna(method='ffill') and 'bfill'
RECURSIVE FFill(_, _)
FFill(vals, last) ==
    IF vals = <<>> THEN <<>>
    ELSE LET v == IF IsNull(Head(vals)) THEN last ELSE Head(vals)
         IN  <<v>> \o FFill(Tail(vals), v)
Reverse(seq) == [i \in 1..Len(seq) |-> seq[Len(seq) + 1 - i]]
BFill(vals) == Reverse(FFill(Reverse(vals), Null))


(***************************************************************************)
(* Conversions of a column.  Each returns [ok, vals, dtype]; ok = FALSE    *)
(* is the conversion raising.                                              *)
(***************************************************************************)
Converted(vals, dtype) == [ok |-> TRUE, vals |-> vals, dtype |-> dtype]
Raised == [ok |-> FALSE, vals |-> <<>>, dtype |-> ""]

\* The integer value of a timestamp (pandas: nanoseconds since the epoch),
\* held here as the digits of its date.
DateNumber(cs) == DigitsValue(DigitsOnly(cs))

\* pd.to_numeric(series, errors='coerce'): a text that does not parse, and a
\* missing value, become NaN.
NumericOf(v) ==
    CASE v.t = "num" -> v
      [] v.t = "bool" -> Num(v.n)
      [] v.t = "str" /\ IsNumberText(v.s) -> Num(DigitsValue(IntegerPart(v.s)))
      [] OTHER -> Null
ToNumeric(vals, dtype) ==
    IF IsNumericDtype(dtype) THEN Converted(vals, dtype)
    ELSE IF dtype = "datetime64"
    THEN Converted([i \in 1..Len(vals) |->
                       IF IsNull(vals[i]) THEN Null ELSE Num(DateNumber(vals[i].s))],
                   "int64")
    ELSE LET out == [i \in 1..Len(vals) |-> NumericOf(vals[i])]
         IN  Converted(out, IF \E i \in 1..Len(out) : IsNull(out[i])
                            THEN "float64" ELSE "int64")

\* pd.to_datetime(series, errors='coerce'): a text that does not parse
\* becomes NaT; a bool column raises TypeError; a number is an offset from
\* the epoch.
DatetimeOf(v) ==
    CASE v.t = "dt" -> v
      [] v.t = "num" -> Dt(EpochText)
      [] v.t = "str" /\ IsDateText(v.s) -> Dt(v.s)
      [] OTHER -> Null
ToDatetime(vals, dtype) ==
    IF dtype = "bool" \/ \E i \in 1..Len(vals) : vals[i].t = "bool" THEN Raised
    ELSE Converted([i \in 1..Len(vals) |-> DatetimeOf(vals[i])], "datetime64")

\* series.astype('category')
ToCategory(vals, dtype) == Converted(vals, "category")

\* series.map(bool_map).fillna(series): a text of the map becomes a bool,
\* every other value stays as it is.
BoolMapTrue ==
    {<<"t", "r", "u", "e">>, <<"T", "r", "u", "e">>, <<"1">>,
     <<"y", "e", "s">>, <<"Y", "e", "s">>}
BoolMapFalse ==
    {<<"f", "a", "l", "s", "e">>, <<"F", "a", "l", "s", "e">>, <<"0">>,
     <<"n", "o">>, <<"N", "o">>}
InBoolMap(v) == v.t = "str" /\ v.s \in BoolMapTrue \cup BoolMapFalse
BoolOf(v) == IF InBoolMap(v) THEN Bool(v.s \in BoolMapTrue) ELSE v
ToBoolean(vals, dtype) ==
    Converted([i \in 1..Len(vals) |-> BoolOf(vals[i])],
              IF vals # <<>> /\ \A i \in 1..Len(vals) : InBoolMap(vals[i]) THEN "bool"
              ELSE IF dtype \in {"int64", "float64"} THEN "float64"
              ELSE IF dtype = "datetime64" \/ dtype = "category" THEN dtype
              ELSE "object")

\* series.astype(str): every value, the missing one included, becomes text.
AsStr(vals, dtype) == [i \in 1..Len(vals) |-> Str(CellText(vals[i], dtype))]
ToText(vals, dtype) == Converted(AsStr(vals, dtype), "object")

(***************************************************************************)
(* DataCleaner: the manual pipeline.                                       *)
(***************************************************************************)
\* DataCleaner._handle_missing_values
HandleMissingValues(t, column, strategy) ==
    LET vals == Series(t, column)
        dtype == t.dtype[column]
    IN  CASE strategy = "drop" -> DropNa(t, column)
          [] strategy = "mean" ->
                IF IsNumericDtype(dtype)
                THEN SetColumn(t, column, FillNa(vals, Mean(vals)), dtype) ELSE t
          [] strategy = "median" ->
                IF IsNumericDtype(dtype)
                THEN SetColumn(t, column, FillNa(vals, Median(vals)), dtype) ELSE t
          [] strategy = "mode" ->
                IF Mode(vals) # <<>>
                THEN SetColumn(t, column, FillNa(vals, Mode(vals)[1]), dtype) ELSE t
          [] strategy = "forward_fill" -> SetColumn(t, column, FFill(vals, Null), dtype)
          [] strategy = "backward_fill" -> SetColumn(t, column, BFill(vals), dtype)
          [] OTHER -> t

\* DataCleaner._convert_column_type: a conversion that raises leaves the
\* column as it was.
ConvertColumnType(t, column, target_type) ==
    LET vals == Series(t, column)
        dtype == t.dtype[column]
        res == CASE target_type = "numeric" -> ToNumeric(vals, dtype)
                 [] target_type = "datetime" -> ToDatetime(vals, dtype)
                 [] target_type = "categorical" -> ToCategory(vals, dtype)
                 [] target_type = "boolean" -> ToBoolean(vals, dtype)
                 [] target_type = "text" -> ToText(vals, dtype)
                 [] OTHER -> Converted(vals, dtype)
    IN  IF res.ok THEN SetColumn(t, column, res.vals, res.dtype) ELSE t

\* The loop over request.missing_value_strategies.items()
RECURSIVE ApplyStrategies(_, _)
ApplyStrategies(t, items) ==
    IF items = <<>> THEN t
    ELSE LET column == Head(items)[1]
             strategy == Head(items)[2]
         IN  ApplyStrategies(IF column \in Columns(t)
                             THEN HandleMissingValues(t, column, strategy) ELSE t,
                             Tail(items))
\* The loop with a failed conversion ending it (the exception not caught
\* per column).
RECURSIVE ApplyConversionsStopAtRaise(_, _)
ApplyConversionsStopAtRaise(t, items) ==
    IF items = <<>> THEN t
    ELSE LET column == Head(items)[1]
             target_type == Head(items)[2]
         IN  IF /\ column \in Columns(t)
                /\ target_type = "datetime"
                /\ ~ToDatetime(Series(t, column), t.dtype[column]).ok
             THEN t
             ELSE ApplyConversionsStopAtRaise(
                      IF column \in Columns(t)
                      THEN ConvertColumnType(t, column, target_type) ELSE t,
                      Tail(items))
\* The loop over request.type_conversions.items()
RECURSIVE ApplyConversions(_, _)
ApplyConversions(t, items) ==
    IF items = <<>> THEN t
    ELSE LET column == Head(items)[1]
             target_type == Head(items)[2]
         IN  ApplyConversions(IF column \in Columns(t)
                              THEN ConvertColumnType(t, column, target_type) ELSE t,
                              Tail(items))

\* The four steps of DataCleaner.apply_manual_cleaning, in order.
ManualDedup(t, request) ==
    IF request.remove_duplicates THEN DropDuplicates(t, "first") ELSE t
ManualDropColumns(t, request) ==
    IF request.columns_to_drop # {}
    THEN DropColumnSet(t, request.columns_to_drop \cap Columns(t)) ELSE t
ManualStrategies(t, request) == ApplyStrategies(t, request.missing_value_strategies)
\* Conversions without the test that the column exists: the assignment to a
\* column the table lacks creates it.
ManualConversionsUnguarded(t, request) ==
    LET converted == ApplyConversions(t, request.type_conversions)
        named == {request.type_conversions[k][1] : k \in 1..Len(request.type_conversions)}
        absent == SelectSeq(<<"x", "y">>, LAMBDA c : c \in named \ Columns(converted))
    IN  [cols |-> converted.cols \o absent,
         dtype |-> [c \in Columns(converted) \cup Range(absent) |->
                       IF c \in Columns(converted) THEN converted.dtype[c] ELSE "object"],
         rows |-> [i \in 1..Len(converted.rows) |->
                      [c \in Columns(converted) \cup Range(absent) |->
                          IF c \in Columns(converted) THEN converted.rows[i][c] ELSE Null]]]
ManualConversions(t, request) == ApplyConversions(t, request.type_conversions)
\* The pipeline with the missing-value strategies before the column drop.
ApplyManualCleaningStrategiesFirst(df, request) ==
    ManualConversions(
        ManualDropColumns(ManualStrategies(ManualDedup(df, request), request), request),
        request)
\* DataCleaner.apply_manual_cleaning
ApplyManualCleaning(df, request) ==
    ManualConversions(
        ManualStrategies(ManualDropColumns(ManualDedup(df, request), request), request),
        request)

(***************************************************************************)
(* list.sort(key=..., reverse=True): a stable sort, descending by key;     *)
(* elements of equal key keep their order.  Keys are tuples of integers,   *)
(* compared as Python compares tuples.                                     *)
(***************************************************************************)
RECURSIVE KeyLess(_, _)
KeyLess(a, b) ==
    IF a = <<>> \/ b = <<>> THEN a = <<>> /\ b # <<>>
    ELSE IF Head(a) = Head(b) THEN KeyLess(Tail(a), Tail(b))
    ELSE Head(a) < Head(b)
\* An insertion that puts an element before those of equal key (a sort that
\* is not stable).
RECURSIVE InsertDescUnstable(_, _)
InsertDescUnstable(sorted, e) ==
    IF sorted = <<>> THEN <<e>>
    ELSE IF ~KeyLess(e.key, Head(sorted).key) THEN <<e>> \o sorted
    ELSE <<Head(sorted)>> \o InsertDescUnstable(Tail(sorted), e)
RECURSIVE InsertDesc(_, _)
InsertDesc(sorted, e) ==
    IF sorted = <<>> THEN <<e>>
    ELSE IF KeyLess(Head(sorted).key, e.key) THEN <<e>> \o sorted
    ELSE <<Head(sorted)>> \o InsertDesc(Tail(sorted), e)
RECURSIVE SortDesc(_)
SortDesc(keyed) ==
    IF keyed = <<>> THEN <<>>
    ELSE InsertDesc(SortDesc(SubSeq(keyed, 1, Len(keyed) - 1)), keyed[Len(keyed)])
Items(keyed) == [i \in 1..Len(keyed) |-> keyed[i].item]

(***************************************************************************)
(* DataCleaner.apply_ai_suggestions.                                       *)
(***************************************************************************)
\* impact_order.get(x.impact_level.value, 0)
ImpactOrder(impact_level) ==
    CASE impact_level = "high" -> 3
      [] impact_level = "medium" -> 2
      [] impact_level = "low" -> 1
      [] OTHER -> 0

\* A selection that matches an identifier by its position in its batch,
\* whatever the batch.
SelectSuggestionsByPosition(suggestions, suggestion_ids) ==
    SelectSeq(suggestions, LAMBDA s : (s.id % 100) \in {id % 100 : id \in Range(suggestion_ids)})
\* [s for s in suggestions if s.id in request.suggestion_ids]
SelectSuggestions(suggestions, suggestion_ids) ==
    SelectSeq(suggestions, LAMBDA s : s.id \in Range(suggestion_ids))
\* selected_suggestions.sort(key=impact, reverse=True)
\* The key of a sort without reverse=True: lowest impact first.
ApplySortKeyAscending(s) == <<0 - ImpactOrder(s.impact_level)>>
ApplySortKey(s) == <<ImpactOrder(s.impact_level)>>
SortSelected(selected) ==
    Items(SortDesc([i \in 1..Len(selected) |->
                        [key |-> ApplySortKey(selected[i]), item |-> selected[i]]]))

\* request.custom_parameters.get(suggestion.id, suggestion.parameters)
ParamsFor(s, custom_parameters) ==
    IF s.id \in DOMAIN custom_parameters THEN custom_parameters[s.id] ELSE s.parameters

\* The result of one step: the table, or ok = FALSE when the step raised.
Done(t) == [ok |-> TRUE, table |-> t]
StepRaised == [ok |-> FALSE, table |-> <<>>]

\* The keep argument of drop_duplicates: "first", "last" or False; any
\* other value makes pandas raise ValueError.
KeepPolicy(p) ==
    CASE p = PStr("first") -> "first"
      [] p = PStr("last") -> "last"
      [] p = PBool(FALSE) -> "none"
      [] OTHER -> "invalid"
StepDropDuplicates(t, s, params) ==
    LET keep == KeepPolicy(Get(params, "keep", PStr("first")))
    IN  IF IsEmptyFrame(t) THEN Done(t)
        ELSE IF keep = "invalid" THEN StepRaised
        ELSE Done(DropDuplicates(t, keep))

\* The fill_missing branch.  The column is read only when the strategy is
\* one of the three the branch knows; reading an absent column raises
\* KeyError.
StepFillMissing(t, s, params) ==
    LET strategy == Get(params, "strategy", PStr("mean"))
        column == s.column
    IN  IF strategy \notin {PStr("mean"), PStr("median"), PStr("mode")} THEN Done(t)
        ELSE IF column \notin Columns(t) THEN StepRaised
        ELSE IF strategy = PStr("mean") /\ IsNumericDtype(t.dtype[column])
        THEN Done(HandleMissingValues(t, column, "mean"))
        ELSE IF strategy = PStr("median") /\ IsNumericDtype(t.dtype[column])
        THEN Done(HandleMissingValues(t, column, "median"))
        ELSE IF strategy = PStr("mode")
        THEN Done(HandleMissingValues(t, column, "mode"))
        ELSE Done(t)

\* The drop_missing branch: df.drop(columns=[c]) or df.dropna(subset=[c]);
\* both raise KeyError for an absent column.
StepDropMissing(t, s, params) ==
    IF s.column \notin Columns(t) THEN StepRaised
    ELSE IF Get(params, "strategy", PNone) = PStr("drop_column")
    THEN Done(DropColumnSet(t, {s.column}))
    ELSE Done(DropNa(t, s.column))

\* cleaned_df.loc[~mask, column] = np.nan with mask the match of the e-mail
\* pattern on the values as text.
ValidateEmails(vals, dtype) ==
    Converted([i \in 1..Len(vals) |->
                  IF MatchesEmail(CellText(vals[i], dtype)) THEN vals[i] ELSE Null],
              IF dtype = "int64" /\ vals # <<>> THEN "float64"
              ELSE IF dtype = "bool" /\ vals # <<>> THEN "object"
              ELSE dtype)
\* Digits kept, and a text of exactly 10 digits written NNN-NNN-NNNN.
PhoneText(cs) ==
    IF Len(DigitsOnly(cs)) = 10 THEN FormatPhone(DigitsOnly(cs)) ELSE DigitsOnly(cs)
StandardizePhones(vals, dtype) ==
    Converted([i \in 1..Len(vals) |-> Str(PhoneText(CellText(vals[i], dtype)))], "object")
StandardizeCase(vals, dtype, case_type) ==
    Converted([i \in 1..Len(vals) |->
                  Str(CASE case_type = "lower" -> StrLower(CellText(vals[i], dtype))
                        [] case_type = "upper" -> StrUpper(CellText(vals[i], dtype))
                        [] OTHER -> StrTitle(CellText(vals[i], dtype)))],
              "object")
TrimWhitespace(vals, dtype) ==
    Converted([i \in 1..Len(vals) |-> Str(StrStrip(CellText(vals[i], dtype)))], "object")

\* The convert_type branch.
StepConvertType(t, s, params) ==
    LET target_type == Get(params, "target_type", PNone)
        operation == Get(params, "operation", PNone)
        case_type == Get(params, "case_type", PStr("lower"))
        column == s.column
        reads == \/ operation \in {PStr("trim_whitespace"), PStr("validate_emails"),
                                   PStr("standardize_phones")}
                 \/ /\ operation = PStr("standardize_case")
                    /\ case_type \in {PStr("lower"), PStr("upper"), PStr("title")}
                 \/ /\ operation # PStr("standardize_case")
                    /\ target_type \in {PStr("numeric"), PStr("datetime")}
        vals == Series(t, column)
        dtype == t.dtype[column]
        res == IF operation = PStr("standardize_case")
               THEN StandardizeCase(vals, dtype, case_type.s)
               ELSE IF operation = PStr("trim_whitespace") THEN TrimWhitespace(vals, dtype)
               ELSE IF operation = PStr("validate_emails") THEN ValidateEmails(vals, dtype)
               ELSE IF operation = PStr("standardize_phones")
               THEN StandardizePhones(vals, dtype)
               ELSE IF target_type = PStr("numeric") THEN ToNumeric(vals, dtype)
               ELSE ToDatetime(vals, dtype)
    IN  IF ~reads THEN Done(t)
        ELSE IF column \notin Columns(t) THEN StepRaised
        ELSE IF ~res.ok THEN StepRaised
        ELSE Done(SetColumn(t, column, res.vals, res.dtype))

\* The texts a bound may be given as, as characters.
BoundChars(p) == IF p.s = "b" THEN <<"b">> ELSE <<"n", "o">>
\* column >= lower_bound and column <= upper_bound, value by value.  A
\* missing value compares False.  A number against a text, in either place,
\* raises TypeError, and so does a timestamp against a number or a text that
\* is no date.
Comparable(v, dtype, bound) ==
    \/ /\ dtype \in {"int64", "float64", "bool"}
       /\ bound.t \in {"num", "bool"}
    \/ /\ dtype \in {"object", "category"}
       /\ \/ v.t = "null"
          \/ v.t \in {"num", "bool"} /\ bound.t \in {"num", "bool"}
          \/ v.t = "str" /\ bound.t = "str"
BoundEighths(bound) == IF bound.t = "bool" THEN 8 * bound.n ELSE bound.n
AtLeast(v, bound) ==
    CASE v.t = "null" -> FALSE
      [] v.t = "str" -> ~StrLess(v.s, BoundChars(bound))
      [] OTHER -> 8 * v.n >= BoundEighths(bound)
AtMost(v, bound) ==
    CASE v.t = "null" -> FALSE
      [] v.t = "str" -> ~StrLess(BoundChars(bound), v.s)
      [] OTHER -> 8 * v.n <= BoundEighths(bound)

\* The remove_outliers branch.
StepRemoveOutliers(t, s, params) ==
    LET lower_bound == Get(params, "lower_bound", PNone)
        upper_bound == Get(params, "upper_bound", PNone)
        column == s.column
        vals == Series(t, column)
        dtype == t.dtype[column]
    IN  IF Get(params, "method", PNone) # PStr("iqr") THEN Done(t)
        ELSE IF lower_bound = PNone \/ upper_bound = PNone THEN Done(t)
        ELSE IF column \notin Columns(t) THEN StepRaised
        ELSE IF \/ dtype = "datetime64"
                \/ \E i \in 1..Len(vals) :
                      \/ ~Comparable(vals[i], dtype, lower_bound)
                      \/ ~Comparable(vals[i], dtype, upper_bound)
                \/ /\ vals = <<>>
                   /\ \/ ~Comparable(Null, dtype, lower_bound)
                      \/ ~Comparable(Null, dtype, upper_bound)
        THEN StepRaised
        ELSE Done(KeepRows(t, {i \in 1..Len(vals) :
                                  AtLeast(vals[i], lower_bound) /\ AtMost(vals[i], upper_bound)}))

\* The body of the try block for one suggestion.
ApplyAction(t, s, params) ==
    CASE s.suggested_action = "drop_duplicates" -> StepDropDuplicates(t, s, params)
      [] s.suggested_action = "fill_missing" -> StepFillMissing(t, s, params)
      [] s.suggested_action = "drop_missing" -> StepDropMissing(t, s, params)
      [] s.suggested_action = "convert_type" -> StepConvertType(t, s, params)
      [] s.suggested_action = "remove_outliers" -> StepRemoveOutliers(t, s, params)
      [] OTHER -> Done(t)

\* except Exception: continue leaves cleaned_df as it was.
ApplyOne(t, res) == IF res.ok THEN res.table ELSE t

\* One iteration of the loop, with what it did: the suggestion, the
\* parameters it ran with, whether the action raised, and the table before
\* and after.
IterationResult(t, s, params, res) ==
    [suggestion |-> s, params |-> params, raised |-> ~res.ok,
     before |-> t, after |-> ApplyOne(t, res)]
IterationWith(t, s, params) == IterationResult(t, s, params, ApplyAction(t, s, params))
Iteration(t, s, custom_parameters) == IterationWith(t, s, ParamsFor(s, custom_parameters))

\* A loop whose try block encloses it: the first action that raises ends it.
RECURSIVE ApplyLoopBreak(_, _, _)
BreakAfter(step, rest, custom_parameters) ==
    IF step.raised THEN <<step>>
    ELSE <<step>> \o ApplyLoopBreak(step.after, rest, custom_parameters)
ApplyLoopBreak(t, selected, custom_parameters) ==
    IF selected = <<>> THEN <<>>
    ELSE BreakAfter(Iteration(t, Head(selected), custom_parameters), Tail(selected),
                    custom_parameters)

\* for suggestion in selected_suggestions: the iterations, in order.
RECURSIVE ApplyLoop(_, _, _)
ContinueAfter(step, rest, custom_parameters) ==
    <<step>> \o ApplyLoop(step.after, rest, custom_parameters)
ApplyLoop(t, selected, custom_parameters) ==
    IF selected = <<>> THEN <<>>
    ELSE ContinueAfter(Iteration(t, Head(selected), custom_parameters), Tail(selected),
                       custom_parameters)

ApplySteps(df, suggestions, request) ==
    ApplyLoop(df, SortSelected(SelectSuggestions(suggestions, request.suggestion_ids)),
              request.custom_parameters)
\* return cleaned_df: the table after the last iteration.
LastTable(df, steps) == IF steps = <<>> THEN df ELSE steps[Len(steps)].after
\* DataCleaner.apply_ai_suggestions
ApplyAiSuggestions(df, suggestions, request) ==
    LastTable(df, ApplySteps(df, suggestions, request))

(***************************************************************************)
(* DataProfiler.detect_data_type.                                          *)
(***************************************************************************)
HeadLimit == 100
\* series.head(n)
HeadOf(vals, n) == SubSeq(vals, 1, IF Len(vals) < n THEN Len(vals) ELSE n)

\* isin([True, False, 0, 1, 'true', 'false', 'True', 'False'])
BoolLiteralTexts ==
    {<<"t", "r", "u", "e">>, <<"f", "a", "l", "s", "e">>,
     <<"T", "r", "u", "e">>, <<"F", "a", "l", "s", "e">>}
IsBoolLiteral(v) ==
    \/ v.t = "bool"
    \/ v.t = "num" /\ v.n \in {0, 1}
    \/ v.t = "str" /\ v.s \in BoolLiteralTexts
\* pd.to_datetime(values, errors='raise') does not raise
DatetimeParses(vals) ==
    \A i \in 1..Len(vals) :
        \/ vals[i].t \in {"dt", "num"}
        \/ vals[i].t = "str" /\ ParsesDatetime(vals[i].s)
\* pd.to_numeric(values, errors='raise') does not raise
NumericParses(vals) ==
    \A i \in 1..Len(vals) :
        \/ vals[i].t \in {"num", "bool"}
        \/ vals[i].t = "str" /\ ParsesNumeric(vals[i].s)

\* detect_data_type with the native numeric check ahead of the boolean one.
DetectDataTypeNumericFirst(vals, dtype) ==
    LET non_null == NonNull(vals)
        unique == Cardinality(Range(non_null))
    IN  IF Len(non_null) = 0 THEN "text"
        ELSE IF IsNumericDtype(dtype) /\ dtype # "bool" THEN "numeric"
        ELSE IF dtype = "bool" \/ \A i \in 1..Len(non_null) : IsBoolLiteral(non_null[i])
        THEN "boolean"
        ELSE IF dtype = "datetime64" THEN "datetime"
        ELSE IF DatetimeParses(HeadOf(non_null, HeadLimit)) THEN "datetime"
        ELSE IF NumericParses(HeadOf(non_null, HeadLimit)) THEN "numeric"
        ELSE IF 10 * unique < Len(non_null) /\ unique < 50 THEN "categorical"
        ELSE "text"
DetectDataType(vals, dtype) ==
    LET non_null == NonNull(vals)
        unique == Cardinality(Range(non_null))
    IN  IF Len(non_null) = 0 THEN "text"
        ELSE IF dtype = "bool" \/ \A i \in 1..Len(non_null) : IsBoolLiteral(non_null[i])
        THEN "boolean"
        ELSE IF IsNumericDtype(dtype) THEN "numeric"
        ELSE IF dtype = "datetime64" THEN "datetime"
        ELSE IF DatetimeParses(HeadOf(non_null, HeadLimit)) THEN "datetime"
        ELSE IF NumericParses(HeadOf(non_null, HeadLimit)) THEN "numeric"
        ELSE IF 10 * unique < Len(non_null) /\ unique < 50 THEN "categorical"
        ELSE "text"

(***************************************************************************)
(* AICleaningAgent: the six analyzers.  An analyzer returns the list of    *)
(* suggestions it emits; the identifier (uuid4) is given by                *)
(* generate_suggestions below, in emission order.                          *)
(***************************************************************************)
Suggestion(column, issue_type, action, impact, affected, confidence, params) ==
    [id |-> 0, column |-> column, issue_type |-> issue_type,
     suggested_action |-> action, impact_level |-> impact,
     affected_rows |-> affected, confidence_score |-> confidence,
     parameters |-> params]

MissingCount(vals) == Len(vals) - Len(NonNull(vals))

\* series.skew() > 1, for the bias-corrected sample skewness of the non-null
\* values (NaN, so False, below three values; 0 when the variance is 0).
\* With n values x, D = n*x - sum(x), T2 = sum(D^2), T3 = sum(D^3):
\* skew > 1  iff  T3 > 0 and n^2 (n-1) T3^2 > (n-2)^2 T2^3.
RECURSIVE SumPow(_, _, _)
SumPow(vals, total, k) ==
    IF vals = <<>> THEN 0
    ELSE LET d == Head(vals).n - total
         IN  (IF k = 2 THEN d * d ELSE d * d * d) + SumPow(Tail(vals), total, k)
\* The products of the comparison exceed the machine integers of the
\* checker: they are computed on natural numbers written as lists of digits
\* in base 1000, least significant first.
RECURSIVE BigOf(_)
BigOf(n) == IF n = 0 THEN <<>> ELSE <<n % 1000>> \o BigOf(n \div 1000)
RECURSIVE BigAdd(_, _, _)
BigAdd(a, b, carry) ==
    IF a = <<>> /\ b = <<>> THEN BigOf(carry)
    ELSE LET v == (IF a = <<>> THEN 0 ELSE Head(a)) + (IF b = <<>> THEN 0 ELSE Head(b)) + carry
         IN  <<v % 1000>> \o BigAdd(IF a = <<>> THEN <<>> ELSE Tail(a),
                                    IF b = <<>> THEN <<>> ELSE Tail(b), v \div 1000)
RECURSIVE BigScale(_, _, _)
BigScale(a, digit, carry) ==
    IF a = <<>> THEN BigOf(carry)
    ELSE LET v == Head(a) * digit + carry
         IN  <<v % 1000>> \o BigScale(Tail(a), digit, v \div 1000)
RECURSIVE BigMul(_, _)
BigMul(a, b) ==
    IF a = <<>> THEN <<>>
    ELSE BigAdd(BigScale(b, Head(a), 0), <<0>> \o BigMul(Tail(a), b), 0)
RECURSIVE BigProduct(_)
BigProduct(factors) ==
    IF factors = <<>> THEN <<1>> ELSE BigMul(BigOf(Head(factors)), BigProduct(Tail(factors)))
RECURSIVE BigTrim(_)
BigTrim(a) ==
    IF a # <<>> /\ a[Len(a)] = 0 THEN BigTrim(SubSeq(a, 1, Len(a) - 1)) ELSE a
RECURSIVE BigLessFrom(_, _, _)
BigLessFrom(a, b, k) ==
    IF k = 0 THEN FALSE
    ELSE IF a[k] # b[k] THEN a[k] < b[k]
    ELSE BigLessFrom(a, b, k - 1)
BigLess(a, b) ==
    LET x == BigTrim(a)
        y == BigTrim(b)
    IN  IF Len(x) # Len(y) THEN Len(x) < Len(y) ELSE BigLessFrom(x, y, Len(x))
SkewAboveOne(vals) ==
    LET nn == NonNull(vals)
        n == Len(nn)
        scaled == [i \in 1..n |-> Num(n * nn[i].n)]
        t2 == SumPow(scaled, SumOf(nn), 2)
        t3 == SumPow(scaled, SumOf(nn), 3)
    IN  /\ n >= 3
        /\ t3 > 0
        /\ BigLess(BigProduct(<<n - 2, n - 2, t2, t2, t2>>),
                   BigProduct(<<n, n, n - 1, t3, t3>>))

\* analyze_missing_values with >= 70 where the code has > 70.
AnalyzeMissingValuesDropAtSeventy(t, column) ==
    LET vals == Series(t, column)
        missing_count == MissingCount(vals)
        data_type == DetectDataType(vals, t.dtype[column])
    IN  IF missing_count = 0 THEN <<>>
        ELSE IF 100 * missing_count >= 70 * Len(vals)
        THEN <<Suggestion(column, "High Missing Values", "drop_missing", "high",
                          missing_count, 90, [strategy |-> PStr("drop_column")])>>
        ELSE IF 100 * missing_count > 20 * Len(vals)
        THEN IF data_type = "numeric"
             THEN <<Suggestion(column, "Missing Values", "fill_missing", "medium",
                               missing_count, 80,
                               [strategy |-> IF SkewAboveOne(vals)
                                             THEN PStr("median") ELSE PStr("mean")])>>
             ELSE IF data_type = "categorical"
             THEN <<Suggestion(column, "Missing Values", "fill_missing", "medium",
                               missing_count, 70, [strategy |-> PStr("mode")])>>
             ELSE <<>>
        ELSE <<Suggestion(column, "Missing Values", "drop_missing", "low",
                          missing_count, 90, [strategy |-> PStr("drop_rows")])>>
\* AICleaningAgent.analyze_missing_values
AnalyzeMissingValues(t, column) ==
    LET vals == Series(t, column)
        missing_count == MissingCount(vals)
        data_type == DetectDataType(vals, t.dtype[column])
    IN  IF missing_count = 0 THEN <<>>
        ELSE IF 100 * missing_count > 70 * Len(vals)
        THEN <<Suggestion(column, "High Missing Values", "drop_missing", "high",
                          missing_count, 90, [strategy |-> PStr("drop_column")])>>
        ELSE IF 100 * missing_count > 20 * Len(vals)
        THEN IF data_type = "numeric"
             THEN <<Suggestion(column, "Missing Values", "fill_missing", "medium",
                               missing_count, 80,
                               [strategy |-> IF SkewAboveOne(vals)
                                             THEN PStr("median") ELSE PStr("mean")])>>
             ELSE IF data_type = "categorical"
             THEN <<Suggestion(column, "Missing Values", "fill_missing", "medium",
                               missing_count, 70, [strategy |-> PStr("mode")])>>
             ELSE <<>>
        ELSE <<Suggestion(column, "Missing Values", "drop_missing", "low",
                          missing_count, 90, [strategy |-> PStr("drop_rows")])>>

\* analyze_duplicates with >= where the code has >.
AnalyzeDuplicatesHighAtTenth(t) ==
    LET duplicate_count == Cardinality(Duplicated(t, "first"))
    IN  IF duplicate_count > 0
        THEN <<Suggestion("all_columns", "Duplicate Rows", "drop_duplicates",
                          IF 10 * duplicate_count >= NumRows(t) THEN "high" ELSE "medium",
                          duplicate_count, 95, [keep |-> PStr("first")])>>
        ELSE <<>>
\* AICleaningAgent.analyze_duplicates
AnalyzeDuplicates(t) ==
    LET duplicate_count == Cardinality(Duplicated(t, "first"))
    IN  IF duplicate_count > 0
        THEN <<Suggestion("all_columns", "Duplicate Rows", "drop_duplicates",
                          IF 10 * duplicate_count > NumRows(t) THEN "high" ELSE "medium",
                          duplicate_count, 95, [keep |-> PStr("first")])>>
        ELSE <<>>

\* The body of the loop of analyze_data_types for one column.
DataTypeSuggestions(t, column) ==
    LET vals == Series(t, column)
        detected_type == DetectDataType(vals, t.dtype[column])
    IN  IF t.dtype[column] = "object" /\ detected_type = "numeric"
        THEN IF NumericParses(NonNull(vals))
             THEN <<Suggestion(column, "Data Type Mismatch", "convert_type", "medium",
                               Len(NonNull(vals)), 85, [target_type |-> PStr("numeric")])>>
             ELSE <<>>
        ELSE IF t.dtype[column] = "object" /\ detected_type = "datetime"
        THEN IF DatetimeParses(HeadOf(NonNull(vals), HeadLimit))
             THEN <<Suggestion(column, "Data Type Mismatch", "convert_type", "low",
                               Len(NonNull(vals)), 75, [target_type |-> PStr("datetime")])>>
             ELSE <<>>
        ELSE <<>>

\* series.quantile(q) for q = quarter/4, times 4: linear interpolation
\* between the two nearest of the sorted non-null values.
QuantileTimes4(vals, quarter) ==
    LET nn == NonNull(vals)
        lo == (quarter * (Len(nn) - 1)) \div 4
        r == (quarter * (Len(nn) - 1)) % 4
    IN  IF r = 0 THEN 4 * KthSmallest(nn, lo + 1)
        ELSE 4 * KthSmallest(nn, lo + 1)
               + r * (KthSmallest(nn, lo + 2) - KthSmallest(nn, lo + 1))
\* The IQR bounds, in eighths.
LowerBound8(vals) ==
    2 * QuantileTimes4(vals, 1) - 3 * (QuantileTimes4(vals, 3) - QuantileTimes4(vals, 1))
UpperBound8(vals) ==
    2 * QuantileTimes4(vals, 3) + 3 * (QuantileTimes4(vals, 3) - QuantileTimes4(vals, 1))
OutlierCount(vals) ==
    Cardinality({i \in 1..Len(vals) :
                    /\ ~IsNull(vals[i])
                    /\ \/ 8 * vals[i].n < LowerBound8(vals)
                       \/ 8 * vals[i].n > UpperBound8(vals)})
\* series.quantile on a column that is detected numeric but is not of a
\* numeric dtype (numbers stored as text) raises TypeError.
OutlierRaises(t, column) ==
    /\ DetectDataType(Series(t, column), t.dtype[column]) = "numeric"
    /\ ~IsNumericDtype(t.dtype[column])
\* The loop body with the tenth taken of the non-null length.
OutlierSuggestionsNonNullLength(t, column) ==
    LET vals == Series(t, column)
        outlier_count == OutlierCount(vals)
    IN  IF DetectDataType(vals, t.dtype[column]) # "numeric" THEN <<>>
        ELSE IF outlier_count > 0 /\ 10 * outlier_count < Len(NonNull(vals))
        THEN <<Suggestion(column, "Outliers Detected", "remove_outliers", "low",
                          outlier_count, 60,
                          [method |-> PStr("iqr"),
                           lower_bound |-> PNum(LowerBound8(vals)),
                           upper_bound |-> PNum(UpperBound8(vals))])>>
        ELSE <<>>
\* The body of the loop of analyze_outliers for one column.
OutlierSuggestions(t, column) ==
    LET vals == Series(t, column)
        outlier_count == OutlierCount(vals)
    IN  IF DetectDataType(vals, t.dtype[column]) # "numeric" THEN <<>>
        ELSE IF outlier_count > 0 /\ 10 * outlier_count < Len(vals)
        THEN <<Suggestion(column, "Outliers Detected", "remove_outliers", "low",
                          outlier_count, 60,
                          [method |-> PStr("iqr"),
                           lower_bound |-> PNum(LowerBound8(vals)),
                           upper_bound |-> PNum(UpperBound8(vals))])>>
        ELSE <<>>

\* series.dropna().astype(str)
NonNullTexts(vals, dtype) ==
    [i \in 1..Len(NonNull(vals)) |-> CellText(NonNull(vals)[i], dtype)]

\* The body of the loop of analyze_column_consistency for one column.
ConsistencySuggestions(t, column) ==
    LET texts == NonNullTexts(Series(t, column), t.dtype[column])
        unique_values == Range(texts)
        lower_values == {StrLower(x) : x \in Range(texts)}
    IN  IF t.dtype[column] # "object" THEN <<>>
        ELSE (IF Len(texts) > 0 /\ Cardinality(unique_values) > Cardinality(lower_values)
              THEN <<Suggestion(column, "Inconsistent Casing", "convert_type", "low",
                                Len(texts), 70,
                                [operation |-> PStr("standardize_case"),
                                 case_type |-> PStr("lower")])>>
              ELSE <<>>)
             \o (IF \E i \in 1..Len(texts) : StrStrip(texts[i]) # texts[i]
                 THEN <<Suggestion(column, "Whitespace Issues", "convert_type", "low",
                                   Len(texts), 80, [operation |-> PStr("trim_whitespace")])>>
                 ELSE <<>>)

\* The body of the loop of analyze_data_patterns for one column.
PatternSuggestions(t, column) ==
    LET texts == NonNullTexts(Series(t, column), t.dtype[column])
        potential_emails == Cardinality({i \in 1..Len(texts) : ContainsAt(texts[i])})
        valid_emails == Cardinality({i \in 1..Len(texts) : MatchesEmail(texts[i])})
        invalid_count == potential_emails - valid_emails
        potential_phones == Cardinality({i \in 1..Len(texts) : ContainsThreeDigits(texts[i])})
    IN  IF t.dtype[column] # "object" THEN <<>>
        ELSE (IF Len(texts) > 0 /\ potential_emails > 0 /\ invalid_count > 0
              THEN <<Suggestion(column, "Invalid Email Format", "convert_type", "medium",
                                invalid_count, 85, [operation |-> PStr("validate_emails")])>>
              ELSE <<>>)
             \o (IF potential_phones > 0
                 THEN <<Suggestion(column, "Phone Number Format", "convert_type", "low",
                                   potential_phones, 60,
                                   [operation |-> PStr("standardize_phones")])>>
                 ELSE <<>>)

\* for column in df.columns: suggestions.extend(...), for each analyzer
RECURSIVE MissingValuesAll(_, _)
MissingValuesAll(t, cols) ==
    IF cols = <<>> THEN <<>>
    ELSE AnalyzeMissingValues(t, Head(cols)) \o MissingValuesAll(t, Tail(cols))
RECURSIVE DataTypesFrom(_, _)
DataTypesFrom(t, cols) ==
    IF cols = <<>> THEN <<>>
    ELSE DataTypeSuggestions(t, Head(cols)) \o DataTypesFrom(t, Tail(cols))
RECURSIVE OutliersFrom(_, _)
OutliersFrom(t, cols) ==
    IF cols = <<>> THEN <<>>
    ELSE OutlierSuggestions(t, Head(cols)) \o OutliersFrom(t, Tail(cols))
RECURSIVE ConsistencyFrom(_, _)
ConsistencyFrom(t, cols) ==
    IF cols = <<>> THEN <<>>
    ELSE ConsistencySuggestions(t, Head(cols)) \o ConsistencyFrom(t, Tail(cols))
RECURSIVE PatternsFrom(_, _)
PatternsFrom(t, cols) ==
    IF cols = <<>> THEN <<>>
    ELSE PatternSuggestions(t, Head(cols)) \o PatternsFrom(t, Tail(cols))
AnalyzeDataTypes(t) == DataTypesFrom(t, t.cols)
AnalyzeOutliers(t) == OutliersFrom(t, t.cols)
AnalyzeColumnConsistency(t) == ConsistencyFrom(t, t.cols)
AnalyzeDataPatterns(t) == PatternsFrom(t, t.cols)

(***************************************************************************)
(* AICleaningAgent.generate_suggestions.                                   *)
(***************************************************************************)
\* str(uuid.uuid4()): identifiers are fresh; the k-th suggestion emitted in
\* generation number batch gets batch * 100 + k.
NewId(batch, k) == batch * 100 + k

\* all_suggestions with the emission order turned round in every second
\* generation (an order that is not a function of the table).
AllSuggestionsUnordered(t, batch) ==
    LET emitted == AnalyzeDuplicates(t) \o MissingValuesAll(t, t.cols)
                     \o AnalyzeDataTypes(t) \o AnalyzeOutliers(t)
                     \o AnalyzeColumnConsistency(t) \o AnalyzeDataPatterns(t)
        n == Len(emitted)
    IN  [k \in 1..n |->
            [emitted[IF batch % 2 = 0 THEN n + 1 - k ELSE k] EXCEPT !.id = NewId(batch, k)]]
\* all_suggestions, in emission order, with their identifiers.
AllSuggestions(t, batch) ==
    LET emitted == AnalyzeDuplicates(t) \o MissingValuesAll(t, t.cols)
                     \o AnalyzeDataTypes(t) \o AnalyzeOutliers(t)
                     \o AnalyzeColumnConsistency(t) \o AnalyzeDataPatterns(t)
    IN  [k \in 1..Len(emitted) |-> [emitted[k] EXCEPT !.id = NewId(batch, k)]]
\* An analyzer raised: generate_suggestions raises.
GenerateRaises(t) == \E c \in Columns(t) : OutlierRaises(t, c)

\* A filter with > where the code has >=.
PassesFilterStrict(s, request) == s.confidence_score > request.confidence_threshold
\* s.confidence_score >= request.confidence_threshold
PassesFilter(s, request) == s.confidence_score >= request.confidence_threshold
FilterByConfidence(all, request) == SelectSeq(all, LAMBDA s : PassesFilter(s, request))
\* A key that puts the confidence score before the impact level.
RankSortKeyConfidenceFirst(s) == <<s.confidence_score, ImpactOrder(s.impact_level)>>
\* key=lambda x: (impact_order[x.impact_level], x.confidence_score), reverse=True
RankSortKey(s) == <<ImpactOrder(s.impact_level), s.confidence_score>>
SortFiltered(filtered) ==
    Items(SortDesc([i \in 1..Len(filtered) |->
                        [key |-> RankSortKey(filtered[i]), item |-> filtered[i]]]))
\* A truncation that keeps the end of the list, not its start.
SliceToLast(seq, n) ==
    LET stop == IF n >= 0 THEN (IF n < Len(seq) THEN n ELSE Len(seq))
                ELSE (IF Len(seq) + n > 0 THEN Len(seq) + n ELSE 0)
    IN  SubSeq(seq, Len(seq) - stop + 1, Len(seq))
\* seq[:n]: the first n elements; for a negative n, all but the last -n.
SliceTo(seq, n) ==
    LET stop == IF n >= 0 THEN (IF n < Len(seq) THEN n ELSE Len(seq))
                ELSE (IF Len(seq) + n > 0 THEN Len(seq) + n ELSE 0)
    IN  SubSeq(seq, 1, stop)
\* The filter, the sort and the truncation.
RankAndTruncate(all, request) ==
    SliceTo(SortFiltered(FilterByConfidence(all, request)), request.max_suggestions)
(***************************************************************************)
(* The inputs of the model: the tables a client uploads and the requests   *)
(* it sends.                                                               *)
(***************************************************************************)
ColumnNames == <<"x", "y">>
\* A column name no uploaded table has.
AbsentColumn == "z"
NumberCells == {Num(1), Num(2)}
TextCells == {Str(<<"a">>), Str(<<"A">>), Str(<<" ", "a", "@", "b">>)}

\* The columns pd.read_csv yields: a column whose values are all numbers
\* is int64, float64 when one is missing (or all are); any other column is
\* object, its values text.
RowCounts == 1..MaxRows
CsvColumns(n) ==
    {vals \in [1..n -> NumberCells \cup {Null}] : TRUE}
    \cup {vals \in [1..n -> TextCells \cup {Null}] : \E i \in 1..n : vals[i].t = "str"}
CsvDtype(vals) ==
    IF \E i \in 1..Len(vals) : vals[i].t = "str" THEN "object"
    ELSE IF \E i \in 1..Len(vals) : IsNull(vals[i]) THEN "float64"
    ELSE "int64"
\* The table of the given columns (a sequence of value lists, one per name).
MakeTable(names, columns) ==
    [cols |-> names,
     dtype |-> [c \in Range(names) |->
                   CsvDtype(columns[CHOOSE k \in 1..Len(names) : names[k] = c])],
     rows |-> [i \in 1..Len(columns[1]) |->
                  [c \in Range(names) |->
                      columns[CHOOSE k \in 1..Len(names) : names[k] = c][i]]]]
CsvTables(n) ==
    {MakeTable(<<"x">>, <<cx>>) : cx \in CsvColumns(n)}
    \cup {MakeTable(ColumnNames, <<cx, cy>>) : cx \in CsvColumns(n), cy \in CsvColumns(n)}
UploadTables == UNION {CsvTables(n) : n \in RowCounts}
\* The uploads of the service model: two-row tables with a text column x
\* and a number column y.
ServiceTextColumns ==
    {<<Str(<<"a">>), Str(<<"A">>)>>,
     <<Str(<<" ", "a", "@", "b">>), Null>>,
     <<Str(<<"a">>), Str(<<"a">>)>>}
ServiceNumberColumns ==
    {<<Num(2), Null>>, <<Null, Null>>, <<Num(2), Num(2)>>}
ServiceTables ==
    {MakeTable(ColumnNames, <<cx, cy>>) :
        cx \in ServiceTextColumns, cy \in ServiceNumberColumns}

DatasetIds == {"d1"}
\* An identifier no dataset is stored under.
UnknownId == "d0"
RequestIds == DatasetIds \cup {UnknownId}

\* ManualCleaningRequest
ManualRequest(dedup, drops, strategies, conversions) ==
    [remove_duplicates |-> dedup, columns_to_drop |-> drops,
     missing_value_strategies |-> strategies, type_conversions |-> conversions]
Strategies == {"drop", "mean", "median", "mode", "forward_fill", "backward_fill"}
TargetTypes == {"numeric", "categorical", "datetime", "text", "boolean"}
\* The manual requests: duplicate removal or not, a set of columns to
\* drop, and at most one strategy or one conversion.
StrategyLists == {<<<<c, st>>>> : c \in Range(ColumnNames), st \in Strategies}
ConversionLists == {<<<<c, ty>>>> : c \in Range(ColumnNames), ty \in TargetTypes}
ManualRequests ==
    {ManualRequest(dedup, drops, items[1], items[2]) :
        dedup \in BOOLEAN, drops \in SUBSET {"x", AbsentColumn},
        items \in {<<<<>>, <<>>>>} \cup (StrategyLists \X {<<>>}) \cup ({<<>>} \X ConversionLists)}
\* The manual requests of the service model.
ServiceManualRequests ==
    {ManualRequest(TRUE, {}, <<>>, <<>>),
     ManualRequest(FALSE, {"x"}, <<>>, <<>>),
     ManualRequest(FALSE, {AbsentColumn}, <<>>, <<>>),
     ManualRequest(FALSE, {}, <<<<"y", "drop">>>>, <<>>),
     ManualRequest(FALSE, {}, <<>>, <<<<"x", "text">>>>)}

\* AutoCleanRequest: confidence_threshold (hundredths) and max_suggestions.
Thresholds == {0, 70, 85, 90}
MaxSuggestionsValues == {-1, 0, 1, 2, 10}
AutoCleanRequests ==
    [confidence_threshold : Thresholds, max_suggestions : MaxSuggestionsValues]
\* The generation requests of the service model: the default request and
\* one that filters.
ServiceAutoCleanRequests ==
    {[confidence_threshold |-> 70, max_suggestions |-> 10],
     [confidence_threshold |-> 85, max_suggestions |-> 2]}

\* ApplyCleaningRequest: suggestion_ids, a list of at most MaxIds distinct
\* identifiers, and custom_parameters, overrides for some of them.
OverrideMaps ==
    {NoParams,
     [keep |-> PStr("any")],
     [strategy |-> PStr("mode")],
     [case_type |-> PStr("upper")]}
IdLists(ids) ==
    {<<>>} \cup UNION {{l \in [1..n -> ids] : \A i, j \in 1..n : i # j => l[i] # l[j]} :
                          n \in 1..MaxIds}
ApplyRequests(ids) ==
    UNION {{[suggestion_ids |-> l, custom_parameters |-> NoParams]}
             \cup {[suggestion_ids |-> l, custom_parameters |-> [k \in {i} |-> m]] :
                      i \in Range(l), m \in OverrideMaps} : l \in IdLists(ids)}

(***************************************************************************)
(* The service: clean.py's handlers over the in-memory DatasetStorage and  *)
(* the module-level suggestions_store.                                     *)
(***************************************************************************)
VARIABLES
    datasets,           \* storage.datasets: dataset_id -> DataFrame
    suggestions_store,  \* clean.suggestions_store: dataset_id -> list
    batches,            \* how many generations have drawn identifiers
    stale,              \* the dataset ids whose stored table changed since
                        \* their suggestions were generated
    call,               \* the handler call being answered: its inputs and
                        \* what each step of it did
    response            \* the response on its way to the client

vars == <<datasets, suggestions_store, batches, stale, call, response>>

NoCall == [endpoint |-> "none"]
NoResponse == [status |-> 0]
Idle == response = NoResponse

\* storage.get_dataset, storage.update_dataset (in-memory branch)
GetDataset(dataset_id) ==
    IF dataset_id \in DOMAIN datasets THEN <<datasets[dataset_id]>> ELSE <<>>
\* An update that writes the table under every stored identifier.
UpdateDatasetEverywhere(dataset_id, df) ==
    IF dataset_id \in DOMAIN datasets
    THEN [d \in DOMAIN datasets |-> df] ELSE datasets
UpdateDataset(dataset_id, df) ==
    IF dataset_id \in DOMAIN datasets
    THEN [datasets EXCEPT ![dataset_id] = df] ELSE datasets
\* suggestions_store.get(dataset_id, [])
StoredSuggestions(dataset_id) ==
    IF dataset_id \in DOMAIN suggestions_store THEN suggestions_store[dataset_id] ELSE <<>>
Put(f, k, v) == [x \in DOMAIN f \cup {k} |-> IF x = k THEN v ELSE f[x]]
Remove(f, k) == [x \in DOMAIN f \ {k} |-> f[x]]

HttpError(status) == [status |-> status]

Init ==
    /\ datasets = [d \in {} |-> <<>>]
    /\ suggestions_store = [d \in {} |-> <<>>]
    /\ batches = 0
    /\ stale = {}
    /\ call = NoCall
    /\ response = NoResponse

\* upload.upload_dataset -> storage.store_dataset: a non-empty CSV table is
\* stored under a fresh identifier.
Upload(dataset_id, df) ==
    /\ Idle
    /\ dataset_id \notin DOMAIN datasets
    /\ datasets' = Put(datasets, dataset_id, df)
    /\ call' = [endpoint |-> "upload", dataset_id |-> dataset_id]
    /\ response' = [status |-> 200, rows |-> NumRows(df), columns |-> Len(df.cols)]
    /\ UNCHANGED <<suggestions_store, batches, stale>>

\* POST /clean/manual/{dataset_id}
ManualCleaning(dataset_id, request) ==
    /\ Idle
    /\ IF GetDataset(dataset_id) = <<>>
       THEN /\ response' = HttpError(404)
            /\ call' = [endpoint |-> "manual", dataset_id |-> dataset_id]
            /\ UNCHANGED <<datasets, stale>>
       ELSE LET df == GetDataset(dataset_id)[1]
                cleaned_df == ApplyManualCleaning(df, request)
            IN  /\ datasets' = UpdateDataset(dataset_id, cleaned_df)
                /\ stale' = IF cleaned_df # df /\ dataset_id \in DOMAIN suggestions_store
                            THEN stale \cup {dataset_id} ELSE stale
                /\ call' = [endpoint |-> "manual", dataset_id |-> dataset_id,
                            request |-> request, df |-> df,
                            after_drop |-> ManualDropColumns(ManualDedup(df, request), request),
                            cleaned_df |-> cleaned_df]
                /\ response' = [status |-> 200,
                                original_rows |-> NumRows(df),
                                cleaned_rows |-> NumRows(cleaned_df),
                                rows_removed |-> NumRows(df) - NumRows(cleaned_df),
                                original_columns |-> Len(df.cols),
                                cleaned_columns |-> Len(cleaned_df.cols)]
    /\ UNCHANGED <<suggestions_store, batches>>

\* POST /clean/auto/{dataset_id}
GetAutoCleanSuggestions(dataset_id, request) ==
    /\ Idle
    /\ batches < MaxBatches
    /\ IF GetDataset(dataset_id) = <<>>
       THEN /\ response' = HttpError(404)
            /\ call' = [endpoint |-> "auto", dataset_id |-> dataset_id]
            /\ UNCHANGED <<suggestions_store, batches, stale>>
       ELSE LET df == GetDataset(dataset_id)[1]
            IN  IF GenerateRaises(df)
                THEN /\ response' = HttpError(500)
                     /\ call' = [endpoint |-> "auto", dataset_id |-> dataset_id]
                     /\ UNCHANGED <<suggestions_store, batches, stale>>
                ELSE \E all \in {AllSuggestions(df, batches + 1)} :
                     \E suggestions \in {RankAndTruncate(all, request)} :
                        /\ suggestions_store' = Put(suggestions_store, dataset_id, suggestions)
                        /\ batches' = batches + 1
                        /\ stale' = stale \ {dataset_id}
                        /\ call' = [endpoint |-> "auto", dataset_id |-> dataset_id,
                                    request |-> request, df |-> df,
                                    all_suggestions |-> all]
                        /\ response' = [status |-> 200, suggestions |-> suggestions,
                                        total_suggestions |-> Len(suggestions)]
    /\ UNCHANGED datasets

\* The handler without the check of the stored list.
ApplyCleaningSuggestionsWithoutList(dataset_id, request) ==
    /\ Idle
    /\ IF GetDataset(dataset_id) = <<>>
       THEN /\ response' = HttpError(404)
            /\ call' = [endpoint |-> "apply", dataset_id |-> dataset_id]
            /\ UNCHANGED <<datasets, stale>>
       ELSE \E df \in {GetDataset(dataset_id)[1]} :
            \E suggestions \in {StoredSuggestions(dataset_id)} :
            \E cleaned_df \in {ApplyAiSuggestions(df, suggestions, request)} :
            \E applied_suggestions \in
                  {SelectSuggestions(suggestions, request.suggestion_ids)} :
               /\ datasets' = UpdateDataset(dataset_id, cleaned_df)
               /\ stale' = IF cleaned_df # df THEN stale \cup {dataset_id} ELSE stale
               /\ call' = [endpoint |-> "apply", dataset_id |-> dataset_id,
                           request |-> request, df |-> df,
                           suggestions |-> suggestions,
                           was_stale |-> dataset_id \in stale,
                           steps |-> ApplySteps(df, suggestions, request),
                           cleaned_df |-> cleaned_df]
               /\ response' = [status |-> 200,
                               original_rows |-> NumRows(df),
                               cleaned_rows |-> NumRows(cleaned_df),
                               rows_affected |-> NumRows(df) - NumRows(cleaned_df),
                               original_columns |-> Len(df.cols),
                               cleaned_columns |-> Len(cleaned_df.cols),
                               applied_suggestions |-> Len(applied_suggestions),
                               suggestion_details |->
                                   [i \in 1..Len(applied_suggestions) |->
                                       [id |-> applied_suggestions[i].id,
                                        impact_level |-> applied_suggestions[i].impact_level,
                                        affected_rows |-> applied_suggestions[i].affected_rows]]]
    /\ UNCHANGED <<suggestions_store, batches>>

\* POST /clean/apply/{dataset_id}
ApplyCleaningSuggestions(dataset_id, request) ==
    /\ Idle
    /\ IF GetDataset(dataset_id) = <<>> \/ StoredSuggestions(dataset_id) = <<>>
       THEN /\ response' = HttpError(404)
            /\ call' = [endpoint |-> "apply", dataset_id |-> dataset_id]
            /\ UNCHANGED <<datasets, stale>>
       ELSE \E df \in {GetDataset(dataset_id)[1]} :
            \E suggestions \in {StoredSuggestions(dataset_id)} :
            \E cleaned_df \in {ApplyAiSuggestions(df, suggestions, request)} :
            \E applied_suggestions \in
                  {SelectSuggestions(suggestions, request.suggestion_ids)} :
               /\ datasets' = UpdateDataset(dataset_id, cleaned_df)
               /\ stale' = IF cleaned_df # df THEN stale \cup {dataset_id} ELSE stale
               /\ call' = [endpoint |-> "apply", dataset_id |-> dataset_id,
                           request |-> request, df |-> df,
                           suggestions |-> suggestions,
                           was_stale |-> dataset_id \in stale,
                           steps |-> ApplySteps(df, suggestions, request),
                           cleaned_df |-> cleaned_df]
               /\ response' = [status |-> 200,
                               original_rows |-> NumRows(df),
                               cleaned_rows |-> NumRows(cleaned_df),
                               rows_affected |-> NumRows(df) - NumRows(cleaned_df),
                               original_columns |-> Len(df.cols),
                               cleaned_columns |-> Len(cleaned_df.cols),
                               applied_suggestions |-> Len(applied_suggestions),
                               suggestion_details |->
                                   [i \in 1..Len(applied_suggestions) |->
                                       [id |-> applied_suggestions[i].id,
                                        impact_level |-> applied_suggestions[i].impact_level,
                                        affected_rows |-> applied_suggestions[i].affected_rows]]]
    /\ UNCHANGED <<suggestions_store, batches>>

\* GET /clean/suggestions/{dataset_id}
GetStoredSuggestions(dataset_id) ==
    /\ Idle
    /\ call' = [endpoint |-> "get", dataset_id |-> dataset_id]
    /\ response' = [status |-> 200, suggestions |-> StoredSuggestions(dataset_id),
                    total_suggestions |-> Len(StoredSuggestions(dataset_id))]
    /\ UNCHANGED <<datasets, suggestions_store, batches, stale>>

\* A clear that keeps the stored list.
ClearSuggestionsKeepsList(dataset_id) ==
    /\ Idle
    /\ suggestions_store' = suggestions_store
    /\ stale' = stale \ {dataset_id}
    /\ call' = [endpoint |-> "clear", dataset_id |-> dataset_id]
    /\ response' = [status |-> 200]
    /\ UNCHANGED <<datasets, batches>>
\* DELETE /clean/suggestions/{dataset_id}
ClearSuggestions(dataset_id) ==
    /\ Idle
    /\ suggestions_store' = Remove(suggestions_store, dataset_id)
    /\ stale' = stale \ {dataset_id}
    /\ call' = [endpoint |-> "clear", dataset_id |-> dataset_id]
    /\ response' = [status |-> 200]
    /\ UNCHANGED <<datasets, batches>>

\* The client receives the response; the next request can be served.
Deliver ==
    /\ ~Idle
    /\ response' = NoResponse
    /\ call' = NoCall
    /\ UNCHANGED <<datasets, suggestions_store, batches, stale>>

\* The identifiers a client may name in an apply request: those of the
\* stored suggestions, and one identifier of no stored suggestion.
KnownIds(dataset_id) ==
    {StoredSuggestions(dataset_id)[i].id : i \in 1..Len(StoredSuggestions(dataset_id))}
ForeignId == NewId(0, 1)

DoUpload == Idle /\ \E d \in DatasetIds, df \in ServiceTables : Upload(d, df)
DoManual == Idle /\ \E d \in RequestIds, r \in ServiceManualRequests : ManualCleaning(d, r)
DoGenerate ==
    Idle /\ \E d \in RequestIds, r \in ServiceAutoCleanRequests : GetAutoCleanSuggestions(d, r)
DoApply ==
    Idle /\ \E d \in RequestIds :
        \E r \in ApplyRequests(KnownIds(d) \cup {ForeignId}) : ApplyCleaningSuggestions(d, r)
DoGet == Idle /\ \E d \in RequestIds : GetStoredSuggestions(d)
DoClear == Idle /\ \E d \in RequestIds : ClearSuggestions(d)

Next == DoUpload \/ DoManual \/ DoGenerate \/ DoApply \/ DoGet \/ DoClear \/ Deliver

Spec == Init /\ [][Next]_vars

(***************************************************************************)
(* generate_suggestions over every CSV table of the model, stored, with    *)
(* every request.                                                          *)
(***************************************************************************)
InitGenerate ==
    /\ datasets \in {[d \in DatasetIds |-> df] : df \in UploadTables}
    /\ suggestions_store = [d \in {} |-> <<>>]
    /\ batches = 0
    /\ stale = {}
    /\ call = NoCall
    /\ response = NoResponse
DoGenerateAny ==
    Idle /\ \E d \in DatasetIds, r \in AutoCleanRequests : GetAutoCleanSuggestions(d, r)
NextGenerate == DoGenerateAny
SpecGenerate == InitGenerate /\ [][NextGenerate]_vars

(***************************************************************************)
(* The ranking stage of generate_suggestions (filter, sort, truncate) as a *)
(* function of all_suggestions and the request, over lists of the          *)
(* suggestions the analyzers emit.                                         *)
(***************************************************************************)
MaxList == 3
EmittedSuggestions ==
    {Suggestion("all_columns", "Duplicate Rows", "drop_duplicates", "medium", 1, 95,
                [keep |-> PStr("first")]),
     Suggestion("x", "High Missing Values", "drop_missing", "high", 1, 90,
                [strategy |-> PStr("drop_column")]),
     Suggestion("x", "Missing Values", "fill_missing", "medium", 1, 70,
                [strategy |-> PStr("mode")]),
     Suggestion("x", "Missing Values", "drop_missing", "low", 1, 90,
                [strategy |-> PStr("drop_rows")]),
     Suggestion("x", "Invalid Email Format", "convert_type", "medium", 1, 85,
                [operation |-> PStr("validate_emails")]),
     Suggestion("x", "Phone Number Format", "convert_type", "low", 1, 60,
                [operation |-> PStr("standardize_phones")])}
EmittedLists ==
    UNION {{[k \in 1..n |-> [l[k] EXCEPT !.id = NewId(1, k)]] :
              l \in [1..n -> EmittedSuggestions]} : n \in 0..MaxList}

\* Lines 310-324 of generate_suggestions on the list all_suggestions.
RankSuggestions(all_suggestions, request) ==
    /\ Idle
    /\ \E filtered \in {FilterByConfidence(all_suggestions, request)} :
       \E sorted \in {SortFiltered(filtered)} :
          /\ call' = [endpoint |-> "rank", request |-> request,
                      all_suggestions |-> all_suggestions,
                      filtered |-> filtered, sorted |-> sorted]
          /\ response' = [status |-> 200,
                          suggestions |-> SliceTo(sorted, request.max_suggestions)]
    /\ UNCHANGED <<datasets, suggestions_store, batches, stale>>
DoRank == Idle /\ \E all \in EmittedLists, r \in AutoCleanRequests : RankSuggestions(all, r)
NextRank == DoRank \/ Deliver
SpecRank == Init /\ [][NextRank]_vars

(***************************************************************************)
(* apply_manual_cleaning over every CSV table of the model, one request    *)
(* per table.                                                              *)
(***************************************************************************)
\* The tables of the manual requests: a column x of any kind, alone or with
\* a number column y.
ManualTables ==
    UNION {{MakeTable(<<"x">>, <<cx>>) : cx \in CsvColumns(n)}
             \cup {MakeTable(ColumnNames, <<cx, cy>>) :
                      cx \in CsvColumns(n), cy \in [1..n -> NumberCells \cup {Null}]} :
           n \in RowCounts}
InitManual ==
    /\ datasets \in {[d \in DatasetIds |-> df] : df \in ManualTables}
    /\ suggestions_store = [d \in {} |-> <<>>]
    /\ batches = 0
    /\ stale = {}
    /\ call = NoCall
    /\ response = NoResponse
DoManualAny == Idle /\ \E d \in DatasetIds, r \in ManualRequests : ManualCleaning(d, r)
NextManual == DoManualAny
SpecManual == InitManual /\ [][NextManual]_vars


(***************************************************************************)
(* The analyzers over one-column tables long enough for their thresholds:  *)
(* a column of distinct numbers followed by repeats of the first, and      *)
(* columns made of a block of one value, a block of nulls and a block of   *)
(* another value.                                                          *)
(***************************************************************************)
MaxAnalyzerRows == 14
\* n - m distinct numbers 2, 3, ... and then m times the number 2.
RepeatColumn(n, m) == [i \in 1..n |-> IF i <= n - m THEN Num(i + 1) ELSE Num(2)]
\* a times v, then c nulls, then b times w.
BlockColumn(a, c, b, v, w) ==
    [i \in 1..(a + c + b) |-> IF i <= a THEN v ELSE IF i <= a + c THEN Null ELSE w]
BlockValues ==
    {<<Num(2), Num(9)>>, <<Num(1), Num(0)>>, <<Str(<<"a">>), Str(<<"A">>)>>}
RepeatTables ==
    UNION {{MakeTable(<<"x">>, <<RepeatColumn(n, m)>>) : m \in 0..(n - 1)} :
           n \in 1..MaxAnalyzerRows}
BlockTables ==
    UNION {{MakeTable(<<"x">>, <<BlockColumn(ab[1], n - ab[1] - ab[2], ab[2], vw[1], vw[2])>>) :
              ab \in {p \in (0..n) \X (0..n) : p[1] + p[2] <= n}, vw \in BlockValues} :
           n \in 1..MaxAnalyzerRows}
AnalyzerTables == RepeatTables \cup BlockTables
InitAnalyze ==
    /\ datasets \in {[d \in DatasetIds |-> df] : df \in AnalyzerTables}
    /\ suggestions_store = [d \in {} |-> <<>>]
    /\ batches = 0
    /\ stale = {}
    /\ call = NoCall
    /\ response = NoResponse
DoAnalyze ==
    Idle /\ \E d \in DatasetIds, r \in ServiceAutoCleanRequests :
               GetAutoCleanSuggestions(d, r)
NextAnalyze == DoAnalyze
SpecAnalyze == InitAnalyze /\ [][NextAnalyze]_vars
(***************************************************************************)
(* Type inference alone: one column of every native type is stored, and    *)
(* detect_data_type is applied to it.                                      *)
(***************************************************************************)
MaxDetectLen == 3
DateText == <<"2", "0", "2", "0", "-", "0", "1", "-", "0", "2">>
DetectTextCells ==
    {Str(<<"t", "r", "u", "e">>), Str(<<"T", "R", "U", "E">>), Str(DateText),
     Str(<<"1", "2">>), Str(<<"a">>), Bool(TRUE), Null}
\* n cells that go round the first u of the texts "a", "b".
RoundColumn(n, u) == [i \in 1..n |-> IF (i % u) = 0 THEN Str(<<"a">>) ELSE Str(<<"b">>)]
\* n copies of a text that parses, then one text that does not.
ParsedThenNot(v, n) == [i \in 1..(n + 1) |-> IF i <= n THEN v ELSE Str(<<"a">>)]
\* The columns by native type, as [vals, dtype].
DetectColumns ==
    UNION {
        {[vals |-> v, dtype |-> "bool"] : v \in [1..n -> {Bool(TRUE), Bool(FALSE)}]}
        \cup {[vals |-> v, dtype |-> CsvDtype(v)] :
                 v \in [1..n -> {Num(0), Num(1), Num(2), Null}]}
        \cup {[vals |-> v, dtype |-> "datetime64"] : v \in [1..n -> {Dt(DateText), Null}]}
        \cup {[vals |-> v, dtype |-> "object"] : v \in [1..n -> DetectTextCells]} :
        n \in 1..MaxDetectLen}
    \cup {[vals |-> <<>>, dtype |-> "object"]}
    \cup {[vals |-> RoundColumn(n, u) \o nulls, dtype |-> "object"] :
             n \in {9, 10, 11, 20, 21}, u \in 1..2, nulls \in {<<>>, <<Null>>}}
    \cup {[vals |-> ParsedThenNot(v, n), dtype |-> "object"] :
             v \in {Str(DateText), Str(<<"1", "2">>)}, n \in {HeadLimit - 1, HeadLimit}}
ColumnTable(c) ==
    [cols |-> <<"x">>,
     dtype |-> [k \in {"x"} |-> c.dtype],
     rows |-> [i \in 1..Len(c.vals) |-> [k \in {"x"} |-> c.vals[i]]]]
InitDetect ==
    /\ datasets \in {[d \in DatasetIds |-> ColumnTable(c)] : c \in DetectColumns}
    /\ suggestions_store = [d \in {} |-> <<>>]
    /\ batches = 0
    /\ stale = {}
    /\ call = NoCall
    /\ response = NoResponse
\* DataProfiler.detect_data_type(df[column])
DoDetect ==
    Idle /\ \E d \in DatasetIds : \E column \in Columns(datasets[d]) :
        /\ call' = [endpoint |-> "detect", df |-> datasets[d], column |-> column]
        /\ response' = [status |-> 200,
                        data_type |-> DetectDataType(Series(datasets[d], column),
                                                     datasets[d].dtype[column])]
        /\ UNCHANGED <<datasets, suggestions_store, batches, stale>>
NextDetect == DoDetect
SpecDetect == InitDetect /\ [][NextDetect]_vars
(***************************************************************************)
(* Manual type conversions alone: a two-column table as read_csv yields    *)
(* it, x possibly of True/False values, and a request that converts one    *)
(* column or both, in either order.                                        *)
(***************************************************************************)
\* The dtype read_csv gives a column: bool when every value is True or
\* False, object when one is text or (with a missing value) a bool.
ReadDtype(vals) ==
    IF vals # <<>> /\ \A i \in 1..Len(vals) : vals[i].t = "bool" THEN "bool"
    ELSE IF \E i \in 1..Len(vals) : vals[i].t \in {"str", "bool"} THEN "object"
    ELSE CsvDtype(vals)
ConvertTables ==
    UNION {{[cols |-> ColumnNames,
             dtype |-> [c \in Range(ColumnNames) |->
                           IF c = "x" THEN ReadDtype(cx) ELSE ReadDtype(cy)],
             rows |-> [i \in 1..n |->
                          [c \in Range(ColumnNames) |-> IF c = "x" THEN cx[i] ELSE cy[i]]]] :
              cx \in [1..n -> {Bool(TRUE), Bool(FALSE), Null}]
                       \cup [1..n -> {Str(<<"a">>), Null}],
              cy \in [1..n -> {Num(1), Num(2), Null}]
                       \cup [1..n -> {Str(<<"1">>), Str(<<"a">>)}]} :
           n \in RowCounts}
ConvertRequests ==
    {ManualRequest(FALSE, {}, <<>>, items) :
        items \in ConversionLists
                    \cup {<<<<c[1], ty[1]>>, <<c[2], ty[2]>>>> :
                             c \in {<<"x", "y">>, <<"y", "x">>},
                             ty \in TargetTypes \X TargetTypes}}
InitConvert ==
    /\ datasets \in {[d \in DatasetIds |-> df] : df \in ConvertTables}
    /\ suggestions_store = [d \in {} |-> <<>>]
    /\ batches = 0
    /\ stale = {}
    /\ call = NoCall
    /\ response = NoResponse
DoConvert == Idle /\ \E d \in DatasetIds, r \in ConvertRequests : ManualCleaning(d, r)
NextConvert == DoConvert
SpecConvert == InitConvert /\ [][NextConvert]_vars
(***************************************************************************)
(* The two appliers statement by statement, with the identity of the       *)
(* DataFrame object cleaned_df is bound to.  get_dataset (in-memory        *)
(* branch) returns the stored object itself; an assignment to a column     *)
(* writes into the object cleaned_df names, and so into the store when     *)
(* that object is the stored one; a call that returns a new DataFrame      *)
(* rebinds cleaned_df to an object of the call.                            *)
(***************************************************************************)
StoredFrame == "stored"
LocalFrame == "local"
\* A df.copy() that returns the object it was given.
DfCopyAlias(frame) == frame
\* df.copy(): a new object.
DfCopy(frame) == LocalFrame

\* The statements apply_manual_cleaning runs for a request, in order.
ManualOps(request) ==
    (IF request.remove_duplicates
     THEN <<[op |-> "dedup", column |-> "", arg |-> ""]>> ELSE <<>>)
    \o (IF request.columns_to_drop # {}
        THEN <<[op |-> "drop_columns", column |-> "", arg |-> ""]>> ELSE <<>>)
    \o [k \in 1..Len(request.missing_value_strategies) |->
           [op |-> "strategy", column |-> request.missing_value_strategies[k][1],
            arg |-> request.missing_value_strategies[k][2]]]
    \o [k \in 1..Len(request.type_conversions) |->
           [op |-> "convert", column |-> request.type_conversions[k][1],
            arg |-> request.type_conversions[k][2]]]
\* The value of cleaned_df after one statement.
ManualOpResult(t, o, request) ==
    CASE o.op = "dedup" -> ManualDedup(t, request)
      [] o.op = "drop_columns" -> ManualDropColumns(t, request)
      [] o.op = "strategy" ->
            IF o.column \in Columns(t) THEN HandleMissingValues(t, o.column, o.arg) ELSE t
      [] o.op = "convert" ->
            IF o.column \in Columns(t) THEN ConvertColumnType(t, o.column, o.arg) ELSE t
\* The statement binds cleaned_df to a new object: drop_duplicates, drop and
\* dropna return one; the fills and the conversions assign to a column.
ManualOpRebinds(t, o) ==
    \/ o.op \in {"dedup", "drop_columns"}
    \/ o.op = "strategy" /\ o.arg = "drop" /\ o.column \in Columns(t)
\* The same for one iteration of the loop of apply_ai_suggestions.
ApplyOpRebinds(s, params, res) ==
    /\ res.ok
    /\ \/ s.suggested_action \in {"drop_duplicates", "drop_missing"}
       \/ /\ s.suggested_action = "remove_outliers"
          /\ Get(params, "method", PNone) = PStr("iqr")
          /\ Get(params, "lower_bound", PNone) # PNone
          /\ Get(params, "upper_bound", PNone) # PNone

\* The stored object after a statement on cleaned_df.
WriteThrough(frame, rebinds, dataset_id, new) ==
    IF frame = StoredFrame /\ ~rebinds THEN UpdateDataset(dataset_id, new) ELSE datasets
Running(endpoint) ==
    call.endpoint = endpoint /\ response = NoResponse /\ "pending" \in DOMAIN call

BeginManual(dataset_id, request) ==
    /\ call = NoCall
    /\ IF GetDataset(dataset_id) = <<>>
       THEN /\ response' = HttpError(404)
            /\ call' = [endpoint |-> "manual", dataset_id |-> dataset_id]
       ELSE /\ call' = [endpoint |-> "manual", dataset_id |-> dataset_id,
                        request |-> request, df |-> GetDataset(dataset_id)[1],
                        frame |-> DfCopy(StoredFrame),
                        cleaned_df |-> GetDataset(dataset_id)[1],
                        pending |-> ManualOps(request), assigned |-> FALSE]
            /\ UNCHANGED response
    /\ UNCHANGED <<datasets, suggestions_store, batches, stale>>
StepManual ==
    /\ Running("manual")
    /\ call.pending # <<>>
    /\ \E o \in {Head(call.pending)} :
       \E new \in {ManualOpResult(call.cleaned_df, o, call.request)} :
       \E rebinds \in {ManualOpRebinds(call.cleaned_df, o)} :
          /\ datasets' = WriteThrough(call.frame, rebinds, call.dataset_id, new)
          /\ call' = [call EXCEPT !.cleaned_df = new,
                                  !.pending = Tail(call.pending),
                                  !.frame = IF rebinds THEN LocalFrame ELSE @,
                                  !.assigned = @ \/ (~rebinds /\ new # call.cleaned_df)]
    /\ UNCHANGED <<suggestions_store, batches, stale, response>>
FinishManual ==
    /\ Running("manual")
    /\ call.pending = <<>>
    /\ datasets' = UpdateDataset(call.dataset_id, call.cleaned_df)
    /\ stale' = IF call.cleaned_df # call.df /\ call.dataset_id \in DOMAIN suggestions_store
                THEN stale \cup {call.dataset_id} ELSE stale
    /\ response' = [status |-> 200,
                    original_rows |-> NumRows(call.df),
                    cleaned_rows |-> NumRows(call.cleaned_df),
                    rows_removed |-> NumRows(call.df) - NumRows(call.cleaned_df),
                    original_columns |-> Len(call.df.cols),
                    cleaned_columns |-> Len(call.cleaned_df.cols)]
    /\ UNCHANGED <<suggestions_store, batches, call>>

BeginApply(dataset_id, request) ==
    /\ call = NoCall
    /\ IF GetDataset(dataset_id) = <<>> \/ StoredSuggestions(dataset_id) = <<>>
       THEN /\ response' = HttpError(404)
            /\ call' = [endpoint |-> "apply", dataset_id |-> dataset_id]
       ELSE /\ call' = [endpoint |-> "apply", dataset_id |-> dataset_id,
                        request |-> request, df |-> GetDataset(dataset_id)[1],
                        suggestions |-> StoredSuggestions(dataset_id),
                        frame |-> DfCopy(StoredFrame),
                        cleaned_df |-> GetDataset(dataset_id)[1],
                        pending |-> SortSelected(SelectSuggestions(
                                        StoredSuggestions(dataset_id),
                                        request.suggestion_ids)),
                        assigned |-> FALSE]
            /\ UNCHANGED response
    /\ UNCHANGED <<datasets, suggestions_store, batches, stale>>
StepApply ==
    /\ Running("apply")
    /\ call.pending # <<>>
    /\ \E s \in {Head(call.pending)} :
       \E params \in {ParamsFor(s, call.request.custom_parameters)} :
       \E res \in {ApplyAction(call.cleaned_df, s, params)} :
       \E new \in {ApplyOne(call.cleaned_df, res)} :
       \E rebinds \in {ApplyOpRebinds(s, params, res)} :
          /\ datasets' = WriteThrough(call.frame, rebinds, call.dataset_id, new)
          /\ call' = [call EXCEPT !.cleaned_df = new,
                                  !.pending = Tail(call.pending),
                                  !.frame = IF rebinds THEN LocalFrame ELSE @,
                                  !.assigned = @ \/ (~rebinds /\ new # call.cleaned_df)]
    /\ UNCHANGED <<suggestions_store, batches, stale, response>>
FinishApply ==
    /\ Running("apply")
    /\ call.pending = <<>>
    /\ datasets' = UpdateDataset(call.dataset_id, call.cleaned_df)
    /\ stale' = IF call.cleaned_df # call.df THEN stale \cup {call.dataset_id} ELSE stale
    /\ \E applied_suggestions \in
             {SelectSuggestions(call.suggestions, call.request.suggestion_ids)} :
          response' = [status |-> 200,
                       original_rows |-> NumRows(call.df),
                       cleaned_rows |-> NumRows(call.cleaned_df),
                       rows_affected |-> NumRows(call.df) - NumRows(call.cleaned_df),
                       original_columns |-> Len(call.df.cols),
                       cleaned_columns |-> Len(call.cleaned_df.cols),
                       applied_suggestions |-> Len(applied_suggestions),
                       suggestion_details |->
                           [i \in 1..Len(applied_suggestions) |->
                               [id |-> applied_suggestions[i].id,
                                impact_level |-> applied_suggestions[i].impact_level,
                                affected_rows |-> applied_suggestions[i].affected_rows]]]
    /\ UNCHANGED <<suggestions_store, batches, call>>

\* A table is stored, with no suggestions or with those of one generation.
InitSteps ==
    /\ datasets \in {[d \in DatasetIds |-> df] : df \in ServiceTables}
    /\ batches \in {0, 1}
    /\ suggestions_store =
          IF batches = 0 THEN [d \in {} |-> <<>>]
          ELSE [d \in DatasetIds |->
                   RankAndTruncate(AllSuggestions(datasets[d], 1),
                                   [confidence_threshold |-> 70, max_suggestions |-> 10])]
    /\ stale = {}
    /\ call = NoCall
    /\ response = NoResponse
DoBeginManual == call = NoCall /\ \E d \in RequestIds, r \in ManualRequests : BeginManual(d, r)
DoBeginApply ==
    call = NoCall /\ \E d \in RequestIds :
        \E r \in ApplyRequests(KnownIds(d) \cup {ForeignId}) : BeginApply(d, r)
NextSteps ==
    DoBeginManual \/ StepManual \/ FinishManual \/ DoBeginApply \/ StepApply \/ FinishApply
SpecSteps == InitSteps /\ [][NextSteps]_vars
(***************************************************************************)
(* The end-to-end example: a stored table of ten rows with columns id,     *)
(* email and amount, two of the rows copies of earlier ones, three amounts *)
(* missing and one e-mail address malformed; a generation with the default *)
(* request, then one apply call for the duplicate, fill and e-mail         *)
(* suggestions.                                                            *)
(***************************************************************************)
ExampleColumns == <<"id", "email", "amount">>
ValidEmail == Str(<<"a", "@", "b", ".", "c", "o">>)
\* Malformed addresses: no top-level domain, and no @.
MalformedEmails == {Str(<<"a", "@", "b">>), Str(<<"a", "b", ".", "c", "o">>)}
\* The amounts of the eight distinct rows: spread evenly, or with one far
\* above the others.
ExampleAmounts == {[k \in 1..8 |-> Num(k + 1)], [k \in 1..8 |-> IF k = 8 THEN Num(40) ELSE Num(2)]}
\* The eight distinct rows, then copies of rows c[1] and c[2]: row m holds
\* the malformed address and the rows of S hold no amount.
ExampleColumnsOf(m, bad, S, amounts, c) ==
    LET pick == [i \in 1..10 |-> IF i <= 8 THEN i ELSE c[i - 8]]
    IN  <<[i \in 1..10 |-> Num(pick[i])],
          [i \in 1..10 |-> IF pick[i] = m THEN bad ELSE ValidEmail],
          [i \in 1..10 |-> IF pick[i] \in S THEN Null ELSE amounts[pick[i]]]>>
ExampleTables ==
    UNION {{MakeTable(ExampleColumns, ExampleColumnsOf(m, bad, S, amounts, c)) :
               m \in {3, 7}, bad \in MalformedEmails, amounts \in ExampleAmounts,
               c \in {p \in {1, 2, 6} \X {1, 2, 6} :
                         Cardinality(S) + Cardinality({k \in 1..2 : p[k] \in S}) = 3}} :
           S \in SUBSET (1..4)}
DefaultRequest == [confidence_threshold |-> 70, max_suggestions |-> 10]
\* The stored suggestions the example applies.
IsExampleSuggestion(s) ==
    \/ s.suggested_action = "drop_duplicates"
    \/ s.suggested_action = "fill_missing" /\ s.column = "amount"
    \/ /\ s.suggested_action = "convert_type"
       /\ s.column = "email"
       /\ s.parameters = [operation |-> PStr("validate_emails")]
ExampleIds(dataset_id) ==
    LET chosen == SelectSeq(StoredSuggestions(dataset_id), IsExampleSuggestion)
    IN  [k \in 1..Len(chosen) |-> chosen[k].id]
InitExample ==
    /\ datasets \in {[d \in DatasetIds |-> df] : df \in ExampleTables}
    /\ suggestions_store = [d \in {} |-> <<>>]
    /\ batches = 0
    /\ stale = {}
    /\ call = NoCall
    /\ response = NoResponse
DoExampleGenerate == Idle /\ \E d \in DatasetIds : GetAutoCleanSuggestions(d, DefaultRequest)
DoExampleApply ==
    Idle /\ \E d \in DatasetIds :
        ApplyCleaningSuggestions(d, [suggestion_ids |-> ExampleIds(d),
                                     custom_parameters |-> NoParams])
NextExample == DoExampleGenerate \/ DoExampleApply \/ Deliver
SpecExample == InitExample /\ [][NextExample]_vars
(***************************************************************************)
(* Generation over the tables the service can come to hold: uploads of one *)
(* column, the same after a manual conversion of the column to text        *)
(* (numbers stored as text), and after a manual drop of the rows with a    *)
(* missing value (down to zero rows).                                      *)
(***************************************************************************)
OneColumnTables == UNION {{MakeTable(<<"x">>, <<cx>>) : cx \in CsvColumns(n)} : n \in RowCounts}
TolerateManualRequests ==
    {ManualRequest(FALSE, {}, <<>>, <<<<"x", "text">>>>),
     ManualRequest(FALSE, {}, <<<<"x", "drop">>>>, <<>>)}
InitTolerate ==
    /\ datasets \in {[d \in DatasetIds |-> df] : df \in OneColumnTables}
    /\ suggestions_store = [d \in {} |-> <<>>]
    /\ batches = 0
    /\ stale = {}
    /\ call = NoCall
    /\ response = NoResponse
DoTolerateManual ==
    Idle /\ \E d \in DatasetIds, r \in TolerateManualRequests : ManualCleaning(d, r)
DoTolerateGenerate ==
    Idle /\ \E d \in DatasetIds : GetAutoCleanSuggestions(d, DefaultRequest)
NextTolerate == DoTolerateManual \/ DoTolerateGenerate \/ Deliver
SpecTolerate == InitTolerate /\ [][NextTolerate]_vars

(***************************************************************************)
(* Two cleaning requests for one dataset in flight at once.  Each request  *)
(* is a task of the event loop running its handler: the read of the table  *)
(* (storage.get_dataset), then the transformation and the write-back       *)
(* (DataCleaner, storage.update_dataset).  The handlers are coroutines     *)
(* without an await, so the loop runs a handler it has started to its      *)
(* return before it starts another.  The tasks are held in call.           *)
(***************************************************************************)
TaskIds == {1, 2}
\* The cleaned table a handler computes from the table it has read.
HandlerResult(task, df, suggestions) ==
    IF task.kind = "manual" THEN ApplyManualCleaning(df, task.request)
    ELSE ApplyAiSuggestions(df, suggestions, task.request)
\* The requests in flight: manual requests, and apply requests naming one
\* stored suggestion or none.
ConcurrentTasks(suggestions) ==
    {[kind |-> "manual", request |-> r, pc |-> "waiting", df |-> <<>>] :
        r \in ServiceManualRequests}
    \cup {[kind |-> "apply",
           request |-> [suggestion_ids |-> l, custom_parameters |-> NoParams],
           pc |-> "waiting", df |-> <<>>] :
            l \in {<<>>} \cup {<<suggestions[k].id>> : k \in 1..Len(suggestions)}}
\* A task that suspends at an await between its read and its write-back.
SchedulableAtAwait(tasks, i) == tasks[i].pc # "done"
\* The event loop gives control to a task only when no other task is inside
\* its handler: a handler has no await at which it would give control up.
Schedulable(tasks, i) ==
    /\ tasks[i].pc # "done"
    /\ \A j \in TaskIds \ {i} : tasks[j].pc # "read"
\* df = storage.get_dataset(dataset_id)
TaskRead(i) ==
    /\ call.endpoint = "concurrent"
    /\ Schedulable(call.tasks, i)
    /\ call.tasks[i].pc = "waiting"
    /\ call' = [call EXCEPT !.tasks[i].pc = "read",
                            !.tasks[i].df = GetDataset(call.dataset_id)]
    /\ UNCHANGED <<datasets, suggestions_store, batches, stale, response>>
\* cleaned_df = DataCleaner...(df, ...); storage.update_dataset(dataset_id, cleaned_df)
TaskWrite(i) ==
    /\ call.endpoint = "concurrent"
    /\ Schedulable(call.tasks, i)
    /\ call.tasks[i].pc = "read"
    /\ \E df \in {call.tasks[i].df[1]} :
       \E cleaned_df \in {HandlerResult(call.tasks[i], df,
                                        StoredSuggestions(call.dataset_id))} :
          /\ datasets' = UpdateDataset(call.dataset_id, cleaned_df)
          /\ stale' = IF cleaned_df # df THEN stale \cup {call.dataset_id} ELSE stale
          /\ call' = [call EXCEPT !.tasks[i].pc = "done",
                                  !.order = Append(@, i)]
    /\ UNCHANGED <<suggestions_store, batches, response>>
\* A table and the suggestions of one generation are stored, and two
\* requests have arrived.
InitConcurrent ==
    /\ datasets \in {[d \in DatasetIds |-> df] : df \in ServiceTables}
    /\ batches = 1
    /\ suggestions_store =
          [d \in DatasetIds |-> RankAndTruncate(AllSuggestions(datasets[d], 1), DefaultRequest)]
    /\ stale = {}
    /\ response = NoResponse
    /\ call \in UNION {{[endpoint |-> "concurrent", dataset_id |-> d, start |-> datasets[d],
                         tasks |-> tasks, order |-> <<>>] :
                           tasks \in [TaskIds -> ConcurrentTasks(suggestions_store[d])]} :
                       d \in DatasetIds}
DoTaskRead == \E i \in TaskIds : TaskRead(i)
DoTaskWrite == \E i \in TaskIds : TaskWrite(i)
NextConcurrent == DoTaskRead \/ DoTaskWrite
SpecConcurrent == InitConcurrent /\ [][NextConcurrent]_vars

(***************************************************************************)
(* The manual and apply handlers over the bucket-backed DatasetStorage     *)
(* (use_gcs): update_dataset writes the table to the bucket and answers    *)
(* True, or catches the exception of a failed write and answers False,     *)
(* the stored table left as it was.  datasets holds the stored tables.     *)
(***************************************************************************)
\* DatasetStorage.update_dataset, use_gcs branch: the stored tables after
\* the call, given whether the write went through.
UpdateDatasetGcs(dataset_id, df, uploaded) ==
    IF uploaded THEN UpdateDataset(dataset_id, df) ELSE datasets
\* POST /clean/manual/{dataset_id}; the handler does not look at what
\* update_dataset returns.
ManualCleaningGcs(dataset_id, request, uploaded) ==
    /\ Idle
    /\ GetDataset(dataset_id) # <<>>
    /\ \E df \in {GetDataset(dataset_id)[1]} :
       \E cleaned_df \in {ApplyManualCleaning(df, request)} :
          /\ datasets' = UpdateDatasetGcs(dataset_id, cleaned_df, uploaded)
          /\ stale' = IF datasets' # datasets /\ dataset_id \in DOMAIN suggestions_store
                      THEN stale \cup {dataset_id} ELSE stale
          /\ call' = [endpoint |-> "manual", dataset_id |-> dataset_id,
                      request |-> request, df |-> df, cleaned_df |-> cleaned_df,
                      updated |-> uploaded]
          /\ response' = [status |-> 200,
                          original_rows |-> NumRows(df),
                          cleaned_rows |-> NumRows(cleaned_df),
                          rows_removed |-> NumRows(df) - NumRows(cleaned_df),
                          original_columns |-> Len(df.cols),
                          cleaned_columns |-> Len(cleaned_df.cols)]
    /\ UNCHANGED <<suggestions_store, batches>>
\* POST /clean/apply/{dataset_id}, likewise.
ApplyCleaningSuggestionsGcs(dataset_id, request, uploaded) ==
    /\ Idle
    /\ GetDataset(dataset_id) # <<>> /\ StoredSuggestions(dataset_id) # <<>>
    /\ \E df \in {GetDataset(dataset_id)[1]} :
       \E suggestions \in {StoredSuggestions(dataset_id)} :
       \E cleaned_df \in {ApplyAiSuggestions(df, suggestions, request)} :
       \E applied_suggestions \in {SelectSuggestions(suggestions, request.suggestion_ids)} :
          /\ datasets' = UpdateDatasetGcs(dataset_id, cleaned_df, uploaded)
          /\ stale' = IF datasets' # datasets THEN stale \cup {dataset_id} ELSE stale
          /\ call' = [endpoint |-> "apply", dataset_id |-> dataset_id,
                      request |-> request, df |-> df, cleaned_df |-> cleaned_df,
                      updated |-> uploaded]
          /\ response' = [status |-> 200,
                          original_rows |-> NumRows(df),
                          cleaned_rows |-> NumRows(cleaned_df),
                          rows_affected |-> NumRows(df) - NumRows(cleaned_df),
                          original_columns |-> Len(df.cols),
                          cleaned_columns |-> Len(cleaned_df.cols),
                          applied_suggestions |-> Len(applied_suggestions)]
    /\ UNCHANGED <<suggestions_store, batches>>
InitPersist ==
    /\ datasets \in {[d \in DatasetIds |-> df] : df \in ServiceTables}
    /\ batches = 1
    /\ suggestions_store =
          [d \in DatasetIds |-> RankAndTruncate(AllSuggestions(datasets[d], 1), DefaultRequest)]
    /\ stale = {}
    /\ call = NoCall
    /\ response = NoResponse
DoPersistManual ==
    Idle /\ \E d \in DatasetIds, r \in ServiceManualRequests, uploaded \in BOOLEAN :
                ManualCleaningGcs(d, r, uploaded)
DoPersistApply ==
    Idle /\ \E d \in DatasetIds, uploaded \in BOOLEAN :
            \E l \in {<<>>} \cup {<<id>> : id \in KnownIds(d)} :
                ApplyCleaningSuggestionsGcs(
                    d, [suggestion_ids |-> l, custom_parameters |-> NoParams], uploaded)
NextPersist == DoPersistManual \/ DoPersistApply \/ Deliver
SpecPersist == InitPersist /\ [][NextPersist]_vars

(***************************************************************************)
(* Generation and then the application of one suggestion, over the         *)
(* one-column tables of up to MaxAnalyzerRows rows (long enough for an     *)
(* outlier suggestion, whose count must stay under a tenth of the rows).   *)
(***************************************************************************)
\* A request that keeps every suggestion.
KeepAllRequest == [confidence_threshold |-> 0, max_suggestions |-> 10]
DoAffectedGenerate ==
    Idle /\ \E d \in DatasetIds : GetAutoCleanSuggestions(d, KeepAllRequest)
DoAffectedApply ==
    Idle /\ \E d \in DatasetIds : \E id \in KnownIds(d) :
        ApplyCleaningSuggestions(d, [suggestion_ids |-> <<id>>, custom_parameters |-> NoParams])
NextAffected == DoAffectedGenerate \/ DoAffectedApply \/ Deliver
SpecAffected == InitAnalyze /\ [][NextAffected]_vars

(***************************************************************************)
(* Apply requests that name identifiers of any generation so far, the      *)
(* regenerated ones included.                                              *)
(***************************************************************************)
InitRegenerate ==
    /\ datasets \in {[d \in DatasetIds |-> df] : df \in ServiceTables}
    /\ suggestions_store = [d \in {} |-> <<>>]
    /\ batches = 0
    /\ stale = {}
    /\ call = NoCall
    /\ response = NoResponse
\* The identifiers handed out so far (the first two of each batch) and one
\* that never was.
IssuedIds == {NewId(b, k) : b \in 1..batches, k \in 1..2} \cup {ForeignId}
DoRegenerate ==
    Idle /\ \E d \in DatasetIds : GetAutoCleanSuggestions(d, DefaultRequest)
DoApplyIssued ==
    Idle /\ \E d \in DatasetIds : \E l \in IdLists(IssuedIds) :
        ApplyCleaningSuggestions(d, [suggestion_ids |-> l, custom_parameters |-> NoParams])
NextRegenerate == DoRegenerate \/ DoApplyIssued \/ Deliver
SpecRegenerate == InitRegenerate /\ [][NextRegenerate]_vars

(***************************************************************************)
(* The service with two datasets stored, requests going to either.         *)
(***************************************************************************)
TwoIds == {"d1", "d2"}
IsolatedTables ==
    {MakeTable(ColumnNames, <<cx, cy>>) :
        cx \in {<<Str(<<" ", "a", "@", "b">>), Null>>, <<Str(<<"a">>), Str(<<"a">>)>>},
        cy \in {<<Num(2), Null>>}}
InitIsolated ==
    /\ datasets \in [TwoIds -> IsolatedTables]
    /\ suggestions_store = [d \in {} |-> <<>>]
    /\ batches = 0
    /\ stale = {}
    /\ call = NoCall
    /\ response = NoResponse
DoIsolatedManual ==
    Idle /\ \E d \in TwoIds, r \in ServiceManualRequests : ManualCleaning(d, r)
DoIsolatedGenerate ==
    Idle /\ \E d \in TwoIds : GetAutoCleanSuggestions(d, DefaultRequest)
DoIsolatedApply ==
    Idle /\ \E d \in TwoIds : \E id \in KnownIds(d) :
        ApplyCleaningSuggestions(d, [suggestion_ids |-> <<id>>, custom_parameters |-> NoParams])
DoIsolatedClear == Idle /\ \E d \in TwoIds : ClearSuggestions(d)
NextIsolated ==
    DoIsolatedManual \/ DoIsolatedGenerate \/ DoIsolatedApply \/ DoIsolatedClear \/ Deliver
SpecIsolated == InitIsolated /\ [][NextIsolated]_vars

(***************************************************************************)
(* Properties.                                                             *)
(***************************************************************************)
\* The call being answered is an apply call that returned a table.
IsApplied == call.endpoint = "apply" /\ response.status = 200
\* The position of the suggestion of the given id in a list.
PositionOf(list, id) == CHOOSE k \in 1..Len(list) : list[k].id = id
IdsOf(list) == {list[k].id : k \in 1..Len(list)}

\* C1: in apply_ai_suggestions a suggestion whose action raises leaves the
\* table exactly as it was before that suggestion; every selected suggestion
\* is attempted, each on the table its predecessor left, also after one that
\* raised; and the call returns a table, the one the last step left, which
\* is the table stored.
C1FailureIsolation ==
    IsApplied =>
        LET steps == call.steps
            selected == SelectSuggestions(call.suggestions, call.request.suggestion_ids)
        IN  /\ Len(steps) = Len(selected)
            /\ {steps[i].suggestion : i \in 1..Len(steps)} = Range(selected)
            /\ \A i \in 1..Len(steps) :
                  /\ steps[i].raised => steps[i].after = steps[i].before
                  /\ steps[i].before = IF i = 1 THEN call.df ELSE steps[i - 1].after
            /\ call.cleaned_df = IF steps = <<>> THEN call.df ELSE steps[Len(steps)].after
            /\ datasets[call.dataset_id] = call.cleaned_df
\* An apply call in which an action raised and a later one changed the table.
C1Witness ==
    /\ IsApplied
    /\ \E i, j \in 1..Len(call.steps) :
          /\ i < j
          /\ call.steps[i].raised
          /\ ~call.steps[j].raised
          /\ call.steps[j].after # call.steps[j].before

\* C2: the list of applied suggestions in the apply response
\* (suggestion_details, counted by applied_suggestions) holds exactly the
\* selected suggestions whose action completed without raising.
C2AppliedListIsCompleted ==
    IsApplied =>
        LET completed == {call.steps[i].suggestion.id :
                             i \in {k \in 1..Len(call.steps) : ~call.steps[k].raised}}
        IN  /\ IdsOf(response.suggestion_details) = completed
            /\ response.applied_suggestions = Cardinality(completed)

\* C3: once a request has changed a dataset's table, no later apply request
\* runs suggestions that were generated from the earlier version of it.
C3StaleSuggestionsNotApplied ==
    IsApplied => ~(call.was_stale /\ call.steps # <<>>)

\* The call being answered is a ranking of the list call.all_suggestions.
IsRanked == call.endpoint = "rank" /\ response.status = 200
\* The call being answered is a generation that returned suggestions.
IsGenerated == call.endpoint = "auto" /\ response.status = 200

\* C4: in the list generate_suggestions returns, a suggestion of higher
\* impact level comes before every suggestion of lower impact level,
\* whatever their confidence scores; among suggestions of equal impact one
\* of higher confidence score comes before one of lower.
C4RankingOrder ==
    IsRanked =>
        LET out == response.suggestions
        IN  \A i, j \in 1..Len(out) :
               /\ ImpactOrder(out[i].impact_level) > ImpactOrder(out[j].impact_level)
                     => i < j
               /\ (out[i].impact_level = out[j].impact_level
                     /\ out[i].confidence_score > out[j].confidence_score)
                     => i < j
\* A returned list in which a suggestion of higher impact and lower
\* confidence precedes another, and two of equal impact differ in confidence.
C4Witness ==
    /\ IsRanked
    /\ \E i, j \in 1..Len(response.suggestions) :
          LET a == response.suggestions[i]
              b == response.suggestions[j]
          IN  /\ i < j
              /\ ImpactOrder(a.impact_level) > ImpactOrder(b.impact_level)
              /\ a.confidence_score < b.confidence_score
    /\ \E i, j \in 1..Len(response.suggestions) :
          LET a == response.suggestions[i]
              b == response.suggestions[j]
          IN  /\ i < j
              /\ a.impact_level = b.impact_level
              /\ a.confidence_score > b.confidence_score

\* C5: the returned list holds no suggestion whose confidence score is
\* below request.confidence_threshold; a suggestion whose score is at least
\* the threshold, equal included, passes the filter and is in the ranked
\* list, of which the returned list is a prefix (so only the truncation can
\* remove it).
C5ConfidenceFilter ==
    IsRanked =>
        LET out == response.suggestions
            threshold == call.request.confidence_threshold
        IN  /\ \A k \in 1..Len(out) : out[k].confidence_score >= threshold
            /\ \A k \in 1..Len(call.all_suggestions) :
                  call.all_suggestions[k].confidence_score >= threshold
                     => /\ call.all_suggestions[k] \in Range(call.filtered)
                        /\ call.all_suggestions[k] \in Range(call.sorted)
            /\ Len(out) <= Len(call.sorted)
            /\ out = SubSeq(call.sorted, 1, Len(out))
\* A suggestion at exactly the threshold is returned while one below the
\* threshold is left out.
C5Witness ==
    /\ IsRanked
    /\ \E k \in 1..Len(response.suggestions) :
          response.suggestions[k].confidence_score = call.request.confidence_threshold
    /\ \E k \in 1..Len(call.all_suggestions) :
          /\ call.all_suggestions[k].confidence_score < call.request.confidence_threshold
          /\ call.all_suggestions[k] \notin Range(response.suggestions)

\* The first n elements of a list: none when n is not positive.
FirstN(seq, n) == SubSeq(seq, 1, IF n < Len(seq) THEN n ELSE Len(seq))
\* C6: for every integer max_suggestions the returned list is the first
\* max_suggestions elements of the ranked filtered list, its length is the
\* smaller of max_suggestions and the number of suggestions that passed the
\* filter (none when max_suggestions is negative, a length being at least
\* zero), and no suggestion is left out while one ranked after it is kept.
C6Truncation ==
    IsRanked =>
        LET out == response.suggestions
            n == call.request.max_suggestions
            passed == Len(call.filtered)
        IN  /\ out = FirstN(call.sorted, n)
            /\ Len(out) = IF n < 0 THEN 0 ELSE IF n < passed THEN n ELSE passed
            /\ \A i, j \in 1..Len(call.sorted) :
                  i < j /\ call.sorted[j] \in Range(out) => call.sorted[i] \in Range(out)
\* C6 as the code has it: the returned list is a prefix of the ranked
\* filtered list, so no suggestion is left out while one ranked after it is
\* kept; for max_suggestions >= 0 it is the first max_suggestions elements,
\* of length the smaller of max_suggestions and the number that passed the
\* filter; for max_suggestions < 0 it is the ranked list without its last
\* -max_suggestions elements (empty when there are no more than that).
C6TruncationBySlice ==
    IsRanked =>
        LET out == response.suggestions
            n == call.request.max_suggestions
            passed == Len(call.filtered)
            kept == IF n >= 0 THEN (IF n < passed THEN n ELSE passed)
                    ELSE (IF passed + n > 0 THEN passed + n ELSE 0)
        IN  /\ Len(call.sorted) = passed
            /\ Len(out) = kept
            /\ out = SubSeq(call.sorted, 1, kept)
            /\ \A i, j \in 1..Len(call.sorted) :
                  i < j /\ call.sorted[j] \in Range(out) => call.sorted[i] \in Range(out)
\* A ranking that truncates: more suggestions passed the filter than a
\* positive max_suggestions allows, and the first max_suggestions are returned.
C6Witness ==
    /\ IsRanked
    /\ call.request.max_suggestions > 0
    /\ call.request.max_suggestions < Len(call.filtered)
    /\ Len(response.suggestions) = call.request.max_suggestions
    /\ response.suggestions[1] = call.sorted[1]

\* The analyzer that emits a suggestion, in the order generate_suggestions
\* runs them, and the position of its column in the table.
GeneratorIndex(s) ==
    CASE s.issue_type = "Duplicate Rows" -> 1
      [] s.issue_type \in {"High Missing Values", "Missing Values"} -> 2
      [] s.issue_type = "Data Type Mismatch" -> 3
      [] s.issue_type = "Outliers Detected" -> 4
      [] s.issue_type \in {"Inconsistent Casing", "Whitespace Issues"} -> 5
      [] s.issue_type \in {"Invalid Email Format", "Phone Number Format"} -> 6
ColumnIndex(s, cols) ==
    IF s.column \in Range(cols) THEN CHOOSE k \in 1..Len(cols) : cols[k] = s.column ELSE 0
\* C7: two returned suggestions of equal impact level and equal confidence
\* score stand in the order the generators emitted them: duplicates, then
\* missing values column by column, then type mismatches, outliers,
\* consistency and patterns.
C7StableTieBreak ==
    IsGenerated =>
        LET out == response.suggestions
        IN  \A i, j \in 1..Len(out) :
               /\ i < j
               /\ out[i].impact_level = out[j].impact_level
               /\ out[i].confidence_score = out[j].confidence_score
               => /\ PositionOf(call.all_suggestions, out[i].id)
                        < PositionOf(call.all_suggestions, out[j].id)
                  /\ \/ GeneratorIndex(out[i]) < GeneratorIndex(out[j])
                     \/ /\ GeneratorIndex(out[i]) = GeneratorIndex(out[j])
                        /\ ColumnIndex(out[i], call.df.cols) < ColumnIndex(out[j], call.df.cols)
\* A returned list with two suggestions of equal impact and confidence.
C7Witness ==
    /\ IsGenerated
    /\ \E i, j \in 1..Len(response.suggestions) :
          /\ i < j
          /\ response.suggestions[i].impact_level = response.suggestions[j].impact_level
          /\ response.suggestions[i].confidence_score
                = response.suggestions[j].confidence_score

\* C8: apply_ai_suggestions runs the selected suggestions by impact level,
\* high before medium before low, whatever the order of the identifiers in
\* the request; selected suggestions of equal impact run in the order they
\* have in the stored list.
C8ApplicationOrder ==
    IsApplied =>
        \A i, j \in 1..Len(call.steps) :
           LET a == call.steps[i].suggestion
               b == call.steps[j].suggestion
           IN  i < j =>
                  /\ ImpactOrder(a.impact_level) >= ImpactOrder(b.impact_level)
                  /\ a.impact_level = b.impact_level
                        => PositionOf(call.suggestions, a.id) < PositionOf(call.suggestions, b.id)
\* An apply call whose request names a suggestion of lower impact before
\* one of higher impact, which runs first.
C8Witness ==
    /\ IsApplied
    /\ \E i, j \in 1..Len(call.steps) :
          LET a == call.steps[i].suggestion
              b == call.steps[j].suggestion
              ids == call.request.suggestion_ids
          IN  /\ i < j
              /\ (CHOOSE k \in 1..Len(ids) : ids[k] = b.id)
                    < (CHOOSE k \in 1..Len(ids) : ids[k] = a.id)
              /\ ImpactOrder(a.impact_level) > ImpactOrder(b.impact_level)

\* C9: for each parameter key of a suggestion that runs, the value the
\* action uses is the request's override for that suggestion and key if the
\* request gives one, else the suggestion's own default for the key; an
\* override that gives some keys keeps the defaults of the others.
C9ParameterPrecedence ==
    IsApplied =>
        \A i \in 1..Len(call.steps) :
           LET s == call.steps[i].suggestion
               custom == call.request.custom_parameters
               override == IF s.id \in DOMAIN custom THEN custom[s.id] ELSE NoParams
           IN  \A key \in DOMAIN s.parameters \cup DOMAIN override :
                  /\ key \in DOMAIN call.steps[i].params
                  /\ call.steps[i].params[key] =
                        IF key \in DOMAIN override THEN override[key] ELSE s.parameters[key]

\* The call being answered is a manual cleaning that returned a table.
IsManual == call.endpoint = "manual" /\ response.status = 200
\* The request without the strategies and conversions of the columns it drops.
WithoutDropped(request) ==
    [request EXCEPT
        !.missing_value_strategies =
            SelectSeq(@, LAMBDA e : e[1] \notin request.columns_to_drop),
        !.type_conversions =
            SelectSeq(@, LAMBDA e : e[1] \notin request.columns_to_drop)]
NamedColumns(request) ==
    {request.missing_value_strategies[k][1] :
        k \in 1..Len(request.missing_value_strategies)}
    \cup {request.type_conversions[k][1] : k \in 1..Len(request.type_conversions)}
\* C10: when a manual request names a column both in columns_to_drop and in
\* missing_value_strategies or type_conversions, the column is dropped
\* first and its strategy or conversion does nothing: the returned table
\* has no such column and is the table the request gives without those
\* entries, and the request is answered without error.
C10DropBeforeStrategy ==
    call.endpoint = "manual" /\ call.dataset_id \in DOMAIN datasets =>
        \A x \in call.request.columns_to_drop \cap NamedColumns(call.request) :
           /\ response.status = 200
           /\ x \notin Columns(call.after_drop)
           /\ x \notin Columns(call.cleaned_df)
           /\ call.cleaned_df =
                 ManualConversions(
                     ManualStrategies(call.after_drop, WithoutDropped(call.request)),
                     WithoutDropped(call.request))
           /\ datasets[call.dataset_id] = call.cleaned_df
\* A manual call on a table with a column x that has a missing value, whose
\* request drops x and names a strategy for x.
C10Witness ==
    /\ IsManual
    /\ \E x \in call.request.columns_to_drop \cap NamedColumns(call.request) :
          /\ x \in Columns(call.df)
          /\ \E i \in 1..NumRows(call.df) : IsNull(call.df.rows[i][x])
          /\ call.request.missing_value_strategies # <<>>

\* No row of the table equals an earlier row (a table without columns has
\* no row to compare).
NoDuplicateRows(t) ==
    \/ Len(t.cols) = 0
    \/ \A i, j \in 1..NumRows(t) : i < j => t.rows[i] # t.rows[j]
\* The manual request that only removes duplicates.
DedupOnly == ManualRequest(TRUE, {}, <<>>, <<>>)
\* C11: removing duplicates from a table that has none returns a table equal
\* to it, by a manual request with remove_duplicates only and by a
\* drop_duplicates suggestion that runs with keep = first; so the table a
\* duplicate removal returned is returned again by a second one.
C11DedupIdempotent ==
    /\ IsManual /\ call.request = DedupOnly =>
          /\ NoDuplicateRows(call.df) => call.cleaned_df = call.df
          /\ NoDuplicateRows(call.cleaned_df)
          /\ ApplyManualCleaning(call.cleaned_df, call.request) = call.cleaned_df
    /\ IsApplied =>
          \A i \in 1..Len(call.steps) :
             LET step == call.steps[i]
             IN  /\ step.suggestion.suggested_action = "drop_duplicates"
                 /\ Get(step.params, "keep", PStr("first")) = PStr("first")
                 => /\ ~step.raised
                    /\ NoDuplicateRows(step.before) => step.after = step.before
                    /\ NoDuplicateRows(step.after)
\* A drop_duplicates suggestion with keep = first runs a second time, on
\* the duplicate-free table its first run left, and returns that table.
C11Witness ==
    /\ IsApplied
    /\ \E i \in 1..Len(call.steps) :
          /\ call.steps[i].suggestion.suggested_action = "drop_duplicates"
          /\ Get(call.steps[i].params, "keep", PStr("first")) = PStr("first")
          /\ call.was_stale
          /\ NumRows(call.steps[i].before) >= 1
          /\ Len(call.steps[i].before.cols) >= 1
          /\ NoDuplicateRows(call.steps[i].before)
          /\ call.steps[i].after = call.steps[i].before

\* The rows that are exact copies of an earlier row.
LaterCopies(t) == {i \in 1..NumRows(t) : \E j \in 1..(i - 1) : t.rows[j] = t.rows[i]}
DuplicateSuggestions(all) ==
    SelectSeq(all, LAMBDA s : s.suggested_action = "drop_duplicates")
\* C12: for a table of N rows of which M are exact copies of an earlier row,
\* the generation emits no duplicate suggestion when M = 0 and exactly one
\* when M > 0; that one has affected_rows = M, keep policy first, confidence
\* 0.95, and impact high if and only if M > 0.1 * N, medium otherwise
\* (M = 0.1 * N included).
C12DuplicateAnalyzer ==
    IsGenerated =>
        LET N == NumRows(call.df)
            M == Cardinality(LaterCopies(call.df))
            found == DuplicateSuggestions(call.all_suggestions)
        IN  /\ (M = 0 => found = <<>>)
            /\ (M > 0 =>
                  /\ Len(found) = 1
                  /\ found[1].affected_rows = M
                  /\ found[1].parameters = [keep |-> PStr("first")]
                  /\ found[1].confidence_score = 95
                  /\ found[1].impact_level \in {"high", "medium"}
                  /\ (found[1].impact_level = "high" <=> 10 * M > N))
\* Ten rows with one copy: M is exactly a tenth of N, and the impact is medium.
C12Witness ==
    /\ IsGenerated
    /\ NumRows(call.df) = 10
    /\ Cardinality(LaterCopies(call.df)) = 1
    /\ Len(DuplicateSuggestions(call.all_suggestions)) = 1
    /\ DuplicateSuggestions(call.all_suggestions)[1].impact_level = "medium"

MissingSuggestions(all, column) ==
    SelectSeq(all, LAMBDA s : /\ s.column = column
                              /\ s.issue_type \in {"High Missing Values", "Missing Values"})
\* C13: for a column with missing percentage p the generation emits at most
\* one missing-value suggestion: none when p = 0; drop-column (impact high,
\* confidence 0.9) when p > 70; an imputation (impact medium) when
\* 20 < p <= 70 and the inferred type is numeric or categorical, none for the
\* other types; drop-rows (impact low, confidence 0.9) when 0 < p <= 20.
\* With k missing of n values, p > 70 is 100 * k > 70 * n.
C13MissingThresholds ==
    IsGenerated =>
        \A c \in Columns(call.df) :
            LET n == NumRows(call.df)
                k == Cardinality({i \in 1..n : IsNull(Series(call.df, c)[i])})
                type == DetectDataType(Series(call.df, c), call.df.dtype[c])
                found == MissingSuggestions(call.all_suggestions, c)
            IN  /\ Len(found) <= 1
                /\ (k = 0 => found = <<>>)
                /\ (100 * k > 70 * n =>
                      /\ Len(found) = 1
                      /\ found[1].suggested_action = "drop_missing"
                      /\ found[1].parameters = [strategy |-> PStr("drop_column")]
                      /\ found[1].impact_level = "high"
                      /\ found[1].confidence_score = 90)
                /\ ((100 * k > 20 * n /\ 100 * k <= 70 * n) =>
                      IF type \in {"numeric", "categorical"}
                      THEN /\ Len(found) = 1
                           /\ found[1].suggested_action = "fill_missing"
                           /\ found[1].impact_level = "medium"
                      ELSE found = <<>>)
                /\ ((k > 0 /\ 100 * k <= 20 * n) =>
                      /\ Len(found) = 1
                      /\ found[1].suggested_action = "drop_missing"
                      /\ found[1].parameters = [strategy |-> PStr("drop_rows")]
                      /\ found[1].impact_level = "low"
                      /\ found[1].confidence_score = 90)
\* Seven of ten values are missing: p is exactly 70, and the column gets an
\* imputation, not a drop-column.
C13Witness ==
    /\ IsGenerated
    /\ \E c \in Columns(call.df) :
          /\ NumRows(call.df) = 10
          /\ Cardinality({i \in 1..10 : IsNull(Series(call.df, c)[i])}) = 7
          /\ Len(MissingSuggestions(call.all_suggestions, c)) = 1
          /\ MissingSuggestions(call.all_suggestions, c)[1].suggested_action = "fill_missing"

OutlierSuggestionsOf(all, column) ==
    SelectSeq(all, LAMBDA s : s.column = column /\ s.suggested_action = "remove_outliers")
\* C14: for a column inferred numeric, with outlier_count the number of
\* values outside [Q1 - 1.5 IQR, Q3 + 1.5 IQR], the generation emits a
\* remove_outliers suggestion for the column if and only if
\* 0 < outlier_count < 0.1 * (length of the column, nulls included); the
\* suggestion has affected_rows = outlier_count and both bounds in its
\* parameters.
C14OutlierEmission ==
    IsGenerated =>
        \A c \in Columns(call.df) :
            LET vals == Series(call.df, c)
                outlier_count == OutlierCount(vals)
                found == OutlierSuggestionsOf(call.all_suggestions, c)
            IN  DetectDataType(vals, call.df.dtype[c]) = "numeric" =>
                  /\ Len(found) <= 1
                  /\ (Len(found) = 1 <=>
                        (outlier_count > 0 /\ 10 * outlier_count < Len(vals)))
                  /\ \A k \in 1..Len(found) :
                        /\ found[k].affected_rows = outlier_count
                        /\ found[k].parameters.lower_bound = PNum(LowerBound8(vals))
                        /\ found[k].parameters.upper_bound = PNum(UpperBound8(vals))
\* One outlier among eleven cells of which one is null: the count is below a
\* tenth of the length, though not below a tenth of the non-null values.
C14Witness ==
    /\ IsGenerated
    /\ \E c \in Columns(call.df) :
          /\ DetectDataType(Series(call.df, c), call.df.dtype[c]) = "numeric"
          /\ Len(Series(call.df, c)) = 11
          /\ MissingCount(Series(call.df, c)) = 1
          /\ OutlierCount(Series(call.df, c)) = 1
          /\ Len(OutlierSuggestionsOf(call.all_suggestions, c)) = 1

IsDetected == call.endpoint = "detect" /\ response.status = 200
SemanticTypes == {"numeric", "categorical", "datetime", "text", "boolean"}
\* The rules of the inference in priority order, as <<condition, type>>, on
\* the non-null values of a column of the given native type.
InferenceRules(non_null, dtype) ==
    <<<<\A i \in 1..Len(non_null) : IsBoolLiteral(non_null[i]), "boolean">>,
      <<IsNumericDtype(dtype), "numeric">>,
      <<dtype = "datetime64", "datetime">>,
      <<DatetimeParses(HeadOf(non_null, HeadLimit)), "datetime">>,
      <<NumericParses(HeadOf(non_null, HeadLimit)), "numeric">>,
      <<10 * Cardinality(Range(non_null)) < Len(non_null)
          /\ Cardinality(Range(non_null)) < 50, "categorical">>,
      <<TRUE, "text">>>>
\* C15: detect_data_type returns one semantic type for every column, the
\* type of the first rule that holds on the non-null values, in the order
\* boolean literal set, native numeric, native timestamp, timestamp parse,
\* number parse, categorical (unique ratio < 0.1 and unique count < 50),
\* text; an empty or all-null column is text, and a natively numeric column
\* whose non-null values are all 0 or 1 is boolean.
C15TypeInference ==
    IsDetected =>
        LET vals == Series(call.df, call.column)
            dtype == call.df.dtype[call.column]
            non_null == SelectSeq(vals, LAMBDA v : ~IsNull(v))
            rules == InferenceRules(non_null, dtype)
        IN  /\ response.data_type \in SemanticTypes
            /\ (non_null = <<>> => response.data_type = "text")
            /\ (non_null # <<>> =>
                  \E k \in 1..Len(rules) :
                      /\ rules[k][1]
                      /\ \A j \in 1..(k - 1) : ~rules[j][1]
                      /\ response.data_type = rules[k][2])
            /\ ((/\ non_null # <<>>
                 /\ dtype \in {"int64", "float64"}
                 /\ \A i \in 1..Len(non_null) : non_null[i] \in {Num(0), Num(1)})
                   => response.data_type = "boolean")
\* A float column of zeros and ones with a missing value is inferred boolean.
C15Witness ==
    /\ IsDetected
    /\ call.df.dtype[call.column] = "float64"
    /\ \E i \in 1..NumRows(call.df) : IsNull(Series(call.df, call.column)[i])
    /\ \E i \in 1..NumRows(call.df) : Series(call.df, call.column)[i] = Num(1)
    /\ \E i \in 1..NumRows(call.df) : Series(call.df, call.column)[i] = Num(0)
    /\ response.data_type = "boolean"

\* suggestions_store.get(dataset_id, []) in a given value of the store.
ListIn(store, dataset_id) ==
    IF dataset_id \in DOMAIN store THEN store[dataset_id] ELSE <<>>
SameElsewhere(store, other, dataset_id) ==
    \A d \in (DOMAIN store \cup DOMAIN other) \ {dataset_id} :
        /\ d \in DOMAIN store
        /\ d \in DOMAIN other
        /\ store[d] = other[d]
\* C16: the suggestion store is last-writer-wins per identifier.  In every
\* step: a successful generation for an identifier leaves under it exactly
\* the list it produced, every entry of which is of the new batch; a clear
\* leaves no list under the identifier; a get answers the list then stored
\* (the empty list when there is none); no other step, a failed generation
\* included, changes the store; and no step changes the list of an
\* identifier other than the one it names.
C16LastWriterWins ==
    [][/\ (call'.endpoint = "auto" /\ response'.status = 200) =>
             /\ call'.dataset_id \in DOMAIN suggestions_store'
             /\ suggestions_store'[call'.dataset_id] = response'.suggestions
             /\ \A k \in 1..Len(response'.suggestions) :
                   /\ \E j \in 1..Len(call'.all_suggestions) :
                         response'.suggestions[k].id = NewId(batches', j)
                   /\ \A d \in DOMAIN suggestions_store :
                         \A j \in 1..Len(suggestions_store[d]) :
                             suggestions_store[d][j].id # response'.suggestions[k].id
             /\ SameElsewhere(suggestions_store, suggestions_store', call'.dataset_id)
       /\ call'.endpoint = "clear" =>
             /\ call'.dataset_id \notin DOMAIN suggestions_store'
             /\ SameElsewhere(suggestions_store, suggestions_store', call'.dataset_id)
       /\ call'.endpoint = "get" =>
             /\ response'.suggestions = ListIn(suggestions_store, call'.dataset_id)
             /\ suggestions_store' = suggestions_store
       /\ (call'.endpoint \notin {"auto", "clear"} \/ response'.status # 200) =>
             suggestions_store' = suggestions_store]_vars
\* A get is answered with a list of the second generation: the list of the
\* first one was replaced.
C16Witness ==
    /\ call.endpoint = "get"
    /\ response.suggestions # <<>>
    /\ batches = 2
    /\ \A k \in 1..Len(response.suggestions) :
          response.suggestions[k].id > NewId(2, 0)

\* C17: a manual, generate or apply request for an identifier that is not
\* in storage, and an apply request for an identifier with no stored
\* suggestions, is answered 404, and the step that answers it leaves the
\* stored tables and the suggestion store as they were.
C17NotFoundLeavesState ==
    [][(/\ call = NoCall
        /\ call'.endpoint \in {"manual", "auto", "apply"}
        /\ \/ call'.dataset_id \notin DOMAIN datasets
           \/ /\ call'.endpoint = "apply"
              /\ ListIn(suggestions_store, call'.dataset_id) = <<>>)
          => /\ response'.status = 404
             /\ datasets' = datasets
             /\ suggestions_store' = suggestions_store]_vars
\* An apply request for a stored table that has no stored suggestions was
\* answered 404.
C17Witness ==
    /\ call.endpoint = "apply"
    /\ response.status = 404
    /\ call.dataset_id \in DOMAIN datasets
    /\ StoredSuggestions(call.dataset_id) = <<>>

\* The override is malformed for the action of the suggestion: a keep policy
\* drop_duplicates does not know, a fill strategy the fill branch does not
\* know, or an outlier bound that is not a number.
MalformedFor(s, override) ==
    \/ /\ s.suggested_action = "drop_duplicates"
       /\ "keep" \in DOMAIN override
       /\ KeepPolicy(override["keep"]) = "invalid"
    \/ /\ s.suggested_action = "fill_missing"
       /\ "strategy" \in DOMAIN override
       /\ override["strategy"] \notin {PStr("mean"), PStr("median"), PStr("mode")}
    \/ /\ s.suggested_action = "remove_outliers"
       /\ \E k \in {"lower_bound", "upper_bound"} \cap DOMAIN override :
             override[k].t # "num"
\* C18: an apply request that gives a selected suggestion custom parameters
\* that are malformed for its action is answered with a client error (4xx),
\* not with a success.
C18InvalidParametersRejected ==
    (call.endpoint = "apply" /\ response.status # 404) =>
        \A i \in 1..Len(call.suggestions) :
            LET s == call.suggestions[i]
                custom == call.request.custom_parameters
            IN  (/\ s.id \in Range(call.request.suggestion_ids)
                 /\ s.id \in DOMAIN custom
                 /\ MalformedFor(s, custom[s.id]))
                    => response.status \in 400..499

\* What the conversion of a column to a target type computes, or that it
\* raises (ok = FALSE).
ConversionResult(vals, dtype, target_type) ==
    CASE target_type = "numeric" -> ToNumeric(vals, dtype)
      [] target_type = "datetime" -> ToDatetime(vals, dtype)
      [] target_type = "categorical" -> ToCategory(vals, dtype)
      [] target_type = "boolean" -> ToBoolean(vals, dtype)
      [] target_type = "text" -> ToText(vals, dtype)
C20InputNotMutated ==
    (call.endpoint \in {"manual", "apply"} /\ response = NoResponse) =>
        /\ call.dataset_id \in DOMAIN datasets
        /\ datasets[call.dataset_id] = call.df
\* An applier has run to its return, an assignment to a column has changed
\* cleaned_df, and the stored table is still the one passed in.
C20Witness ==
    /\ call.endpoint \in {"manual", "apply"}
    /\ response = NoResponse
    /\ call.pending = <<>>
    /\ call.assigned
    /\ call.cleaned_df # call.df
    /\ datasets[call.dataset_id] = call.df

\* A non-null text that does not have the shape of an e-mail address.
IsMalformedEmail(v) == v.t = "str" /\ ~MatchesEmail(v.s)
\* The table of the example.
IsExampleTable(t) ==
    /\ t.cols = ExampleColumns
    /\ NumRows(t) = 10
    /\ Cardinality(LaterCopies(t)) = 2
    /\ MissingCount(Series(t, "amount")) = 3
    /\ Cardinality({i \in 1..10 : IsMalformedEmail(t.rows[i]["email"])}) = 1
\* C21: for the table of the example, generation with the default request
\* yields a duplicate suggestion of impact high, a fill-missing suggestion
\* for amount of impact medium and an e-mail validation suggestion of impact
\* medium and confidence 0.85; applying the three in one call yields a table
\* of 8 rows with no null in amount and the malformed address set to null.
C21EndToEndExample ==
    /\ (IsGenerated /\ IsExampleTable(call.df) /\ call.request = DefaultRequest) =>
          /\ \E s \in Range(response.suggestions) :
                s.suggested_action = "drop_duplicates" /\ s.impact_level = "high"
          /\ \E s \in Range(response.suggestions) :
                /\ s.suggested_action = "fill_missing"
                /\ s.column = "amount"
                /\ s.impact_level = "medium"
          /\ \E s \in Range(response.suggestions) :
                /\ s.parameters = [operation |-> PStr("validate_emails")]
                /\ s.column = "email"
                /\ s.impact_level = "medium"
                /\ s.confidence_score = 85
    /\ (IsApplied /\ IsExampleTable(call.df) /\ ~call.was_stale) =>
          /\ Len(call.request.suggestion_ids) = 3
          /\ NumRows(call.cleaned_df) = 8
          /\ MissingCount(Series(call.cleaned_df, "amount")) = 0
          /\ \A i \in 1..NumRows(call.cleaned_df) :
                ~IsMalformedEmail(call.cleaned_df.rows[i]["email"])
          /\ MissingCount(Series(call.cleaned_df, "email")) = 1

\* A suggestion without its identifier.
WithoutId(s) == [s EXCEPT !.id = 0]
C23GeneratorsNeverRaise ==
    (call.endpoint = "auto" /\ call.dataset_id \in DOMAIN datasets) =>
        /\ ~GenerateRaises(datasets[call.dataset_id])
        /\ response.status = 200

\* The stored table after the handlers of tasks i and j ran one after the
\* other on the table stored when the requests arrived.
SerialResult(i, j) ==
    LET suggestions == StoredSuggestions(call.dataset_id)
        first == HandlerResult(call.tasks[i], call.start, suggestions)
    IN  HandlerResult(call.tasks[j], first, suggestions)
BothDone == call.endpoint = "concurrent" /\ \A i \in TaskIds : call.tasks[i].pc = "done"
\* C24: when two manual or apply requests for one dataset are in flight at
\* once, no handler runs between another handler's read of the table and its
\* write-back, and the table stored in the end is the result of running the
\* two requests one after the other in some order.
C24NoLostUpdate ==
    /\ call.endpoint = "concurrent" =>
          Cardinality({i \in TaskIds : call.tasks[i].pc = "read"}) <= 1
    /\ BothDone =>
          \/ datasets[call.dataset_id] = SerialResult(1, 2)
          \/ datasets[call.dataset_id] = SerialResult(2, 1)
\* Both requests are done and each changed the table: the table stored in
\* the end is the result of neither request alone.
C24Witness ==
    /\ BothDone
    /\ \A i \in TaskIds :
          datasets[call.dataset_id]
             # HandlerResult(call.tasks[i], call.start, StoredSuggestions(call.dataset_id))
    /\ datasets[call.dataset_id] # call.start

\* C25: when the manual or the apply endpoint answers success, the stored
\* table is the cleaned table whose row and column counts the response
\* reports, and update_dataset did not return failure.
C25SuccessMeansPersisted ==
    (call.endpoint \in {"manual", "apply"} /\ response.status = 200 /\ "updated" \in DOMAIN call) =>
        /\ call.updated
        /\ GetDataset(call.dataset_id) = <<call.cleaned_df>>
        /\ response.cleaned_rows = NumRows(datasets[call.dataset_id])
        /\ response.cleaned_columns = Len(datasets[call.dataset_id].cols)

\* The suggestion removes rows: drop_duplicates, drop_missing with the
\* strategy drop_rows, remove_outliers.
RemovesRows(s) ==
    \/ s.suggested_action \in {"drop_duplicates", "remove_outliers"}
    \/ s.suggested_action = "drop_missing" /\ s.parameters.strategy = PStr("drop_rows")
\* One suggestion applied alone, without overrides, to the table it was
\* generated from.
AppliedAlone ==
    /\ IsApplied
    /\ ~call.was_stale
    /\ Len(call.request.suggestion_ids) = 1
    /\ call.request.custom_parameters = NoParams
    /\ call.request.suggestion_ids[1] \in IdsOf(call.suggestions)
TheApplied == call.suggestions[PositionOf(call.suggestions, call.request.suggestion_ids[1])]
\* C26: when one row-removing suggestion is applied alone, without
\* overrides, to the table it was generated from, the number of rows removed
\* equals its affected_rows, also when the target column holds nulls.
C26AffectedRowsMatch ==
    (AppliedAlone /\ RemovesRows(TheApplied)) =>
        NumRows(call.df) - NumRows(call.cleaned_df) = TheApplied.affected_rows

\* None of the request's identifiers is the identifier of a stored suggestion.
NoMatchingId ==
    /\ IsApplied
    /\ Range(call.request.suggestion_ids) \cap IdsOf(call.suggestions) = {}
\* C27: when none of the request's suggestion_ids is the identifier of a
\* suggestion in the stored list, apply_ai_suggestions returns a table equal
\* to its input (which stays the stored table) and the endpoint reports zero
\* applied suggestions.
C27NoMatchIsIdentity ==
    NoMatchingId =>
        /\ call.cleaned_df = call.df
        /\ call.steps = <<>>
        /\ datasets[call.dataset_id] = call.df
        /\ response.applied_suggestions = 0
        /\ response.rows_affected = 0
\* The request names identifiers of a batch that was regenerated since, in
\* the positions of suggestions that are stored now.
C27Witness ==
    /\ NoMatchingId
    /\ call.request.suggestion_ids # <<>>
    /\ \A id \in Range(call.request.suggestion_ids) :
          id # ForeignId /\ (id + 100) \in IdsOf(call.suggestions)

\* The step ran a case standardization or a whitespace trim.
IsTextRepair(step) ==
    /\ ~step.raised
    /\ step.suggestion.suggested_action = "convert_type"
    /\ step.suggestion.column \in Columns(step.before)
    /\ Get(step.params, "operation", PNone) \in {PStr("standardize_case"), PStr("trim_whitespace")}
\* C28: applying a case-standardization or whitespace-trim suggestion keeps
\* the row count and the columns, leaves every other column unchanged, leaves
\* every null cell of the target column null, and changes the non-null text
\* values only in case or surrounding whitespace.
C28TextRepairsKeepNulls ==
    IsApplied =>
        \A k \in 1..Len(call.steps) :
            LET step == call.steps[k]
                column == step.suggestion.column
            IN  IsTextRepair(step) =>
                   /\ NumRows(step.after) = NumRows(step.before)
                   /\ step.after.cols = step.before.cols
                   /\ \A c \in Columns(step.before) \ {column} :
                         Series(step.after, c) = Series(step.before, c)
                   /\ \A i \in 1..NumRows(step.before) :
                         LET old == step.before.rows[i][column]
                             new == step.after.rows[i][column]
                         IN  /\ IsNull(old) => IsNull(new)
                             /\ old.t = "str" =>
                                   /\ new.t = "str"
                                   /\ StrLower(StrStrip(new.s)) = StrLower(StrStrip(old.s))

\* small is big with some elements left out, the others in the same order.
IsSubsequence(small, big) ==
    /\ Range(small) \subseteq Range(big)
    /\ small = SelectSeq(big, LAMBDA c : c \in Range(small))
\* C29: no request adds a row or a column to a stored table: after every
\* step each stored table has at most the rows it had and its column names
\* are a subsequence of those it had, so that after any sequence of cleaning
\* requests the table is within its shape at upload.
C29CleaningOnlyShrinks ==
    [][\A d \in DOMAIN datasets :
          /\ d \in DOMAIN datasets'
          /\ NumRows(datasets'[d]) <= NumRows(datasets[d])
          /\ IsSubsequence(datasets'[d].cols, datasets[d].cols)]_vars
\* A cleaning request shrank a table that an earlier cleaning had already
\* changed.
C29Witness ==
    /\ IsApplied
    /\ call.was_stale
    /\ response.cleaned_columns < response.original_columns
    /\ response.original_rows < 2

\* C30: a manual, generate, apply or clear request for a dataset identifier
\* changes neither the stored table nor the stored suggestions of any other
\* identifier, and a generate or clear request does not change the stored
\* table of its own identifier either.
C30IdentifiersIsolated ==
    [][call'.endpoint \in {"manual", "auto", "apply", "clear"} =>
          /\ \A e \in (DOMAIN datasets \cup DOMAIN datasets') \ {call'.dataset_id} :
                /\ e \in DOMAIN datasets /\ e \in DOMAIN datasets'
                /\ datasets'[e] = datasets[e]
          /\ \A e \in (DOMAIN suggestions_store \cup DOMAIN suggestions_store')
                        \ {call'.dataset_id} :
                /\ e \in DOMAIN suggestions_store /\ e \in DOMAIN suggestions_store'
                /\ suggestions_store'[e] = suggestions_store[e]
          /\ call'.endpoint \in {"auto", "clear"} => datasets' = datasets]_vars
\* A request changed the table of one dataset while the other dataset, with
\* a table that differs and suggestions of its own, is stored next to it.
C30Witness ==
    /\ IsApplied
    /\ call.cleaned_df # call.df
    /\ \E e \in DOMAIN suggestions_store \ {call.dataset_id} :
          /\ suggestions_store[e] # <<>>
          /\ e \in DOMAIN datasets
          /\ datasets[e] # call.cleaned_df
====
